---- MODULE Spec2Model ----
(***************************************************************************)
(* A model of polareth/trace: the storage-access analysis                  *)
(* (traceStorageAccess, src/src/lib/trace.ts), the slot engine it imports  *)
(* (computeMappingSlot .. findLayoutInfoAtSlot, src/unnamed/part_004, the  *)
(* module "@/lib/slots/engine") and the older slot engine                  *)
(* (findBestStorageSlotLabel, src/src/lib/slot-engine.ts).                 *)
(*                                                                         *)
(* Scaling.  A Hex256 word is modelled by its numeric value, scaled from   *)
(* 32 bytes to WordBytes = 3 bytes (TLC integers are 32 bits wide), so     *)
(* that arithmetic is done modulo WordModulus = 2^24 where the code does   *)
(* it modulo, or beyond, 2^256.  The array-index LIMIT keeps its source    *)
(* value 1,000,000 < 2^24.  keccak256 is a library function; it is         *)
(* modelled by a fixed deterministic mixing function over the sequence of  *)
(* words hashed.                                                           *)
(***************************************************************************)
EXTENDS Integers, Sequences, FiniteSets, TLC

(***************************************************************************)
(* Words                                                                   *)
(***************************************************************************)
WordBytes == 3

WordModulus == 256 * 256 * 256

HexDigits == 2 * WordBytes

\* toHex(value, {size: 32}) throws when the value does not fit the size.
IntegerOutOfRange == -1

\* `undefined` for an optional numeric field (offset, index, baseSlot).
Undefined == -2

\* `undefined` for an optional string field (type, valueType, baseType).
NoType == "undefined"

Pow256(n) == IF n = 0 THEN 1 ELSE IF n = 1 THEN 256 ELSE IF n = 2 THEN 256 * 256 ELSE WordModulus

(***************************************************************************)
(* keccak256 (tevm): a fixed deterministic function of the words hashed.   *)
(***************************************************************************)
mulmod(x, a) == ((((x \div 4096) * a) % 4096) * 4096 + (x % 4096) * a) % WordModulus

absorb(h, w) ==
  LET x1 == (mulmod((h + w) % WordModulus, 2053) + 77) % WordModulus
      lo == x1 % 4096
      hi == x1 \div 4096
      x2 == ((hi + lo * lo) % 4096) * 4096 + lo
  IN  (mulmod(x2, 3067) + 91) % WordModulus

RECURSIVE absorbAll(_, _)
absorbAll(h, ws) == IF ws = <<>> THEN h ELSE absorbAll(absorb(h, Head(ws)), Tail(ws))

keccak256(ws) == absorb(absorbAll(3034737, ws), Len(ws))

\* hexToBigInt of a 32-byte hex word: its numeric value.
hexToBigInt(hex) == hex

\* toHex(n, {size: 32}): the word of value n, or a throw when n needs more than 32 bytes.
toHex32(n) == IF n < WordModulus THEN n ELSE IntegerOutOfRange

(***************************************************************************)
(* Slot codec of the slot engine (src/unnamed/part_004)                    *)
(***************************************************************************)
\* keccak256(key.hex ++ baseSlot), key first.
computeMappingSlot(baseSlot, key) == keccak256(<<key.hex, baseSlot>>)

RECURSIVE computeNestedMappingSlot(_, _)
computeNestedMappingSlot(baseSlot, keys) ==
  IF Len(keys) = 0 THEN baseSlot
  ELSE computeNestedMappingSlot(computeMappingSlot(baseSlot, Head(keys)), Tail(keys))

\* keccak256(baseSlot) + index, encoded on 32 bytes (throws when it does not fit).
computeArraySlot(baseSlot, index) == toHex32(hexToBigInt(keccak256(<<baseSlot>>)) + index)

LIMIT == 1000000

isValidArrayIndex(index) == hexToBigInt(index) >= 0 /\ hexToBigInt(index) < LIMIT

(***************************************************************************)
(* Storage layouts (StorageSlotInfo[]) and candidate keys (MappingKey[])   *)
(***************************************************************************)
MappingValueTypes ==
  {"mapping(address => uint256)",
   "mapping(address => mapping(address => mapping(address => uint256)))"}

\* valueType?.includes("mapping")
includesMapping(valueType) == valueType \in MappingValueTypes

StorageSlotInfo(label, slot, offset, type, encoding, isComputed, valueType, baseType, keyType, baseSlot) ==
  [label |-> label, slot |-> slot, offset |-> offset, type |-> type, encoding |-> encoding,
   isComputed |-> isComputed, valueType |-> valueType, baseType |-> baseType,
   keyType |-> keyType, baseSlot |-> baseSlot]

MappingKey(hex, type) == [hex |-> hex, type |-> type]

\* A label of a match: a declared name, or the fallback `var_<slot prefix>`.
VarLabel(name) == [name |-> name, prefix |-> Undefined]

\* slot.slice(0, 10): "0x" and the first 4 of the 32 bytes, here the first of the 3 bytes.
slotPrefix(slot) == slot \div (256 * 256)

FallbackLabel(slot) == [name |-> "var_", prefix |-> slotPrefix(slot)]

SlotLabelResult(label, slot, matchType, type, offset, keys, index) ==
  [label |-> label, slot |-> slot, matchType |-> matchType, type |-> type,
   offset |-> offset, keys |-> keys, index |-> index]

fallbackResult(slot) ==
  SlotLabelResult(FallbackLabel(slot), slot, "exact", NoType, Undefined, <<>>, Undefined)

(***************************************************************************)
(* findLayoutInfoAtSlot (src/unnamed/part_004)                             *)
(***************************************************************************)
offsetOrZero(item) == IF item.offset = Undefined THEN 0 ELSE item.offset

\* Array.prototype.sort with (a, b) => (a.offset ?? 0) - (b.offset ?? 0): stable.
RECURSIVE insertByOffset(_, _)
insertByOffset(sorted, item) ==
  IF sorted = <<>> THEN <<item>>
  ELSE IF offsetOrZero(Head(sorted)) <= offsetOrZero(item)
       THEN <<Head(sorted)>> \o insertByOffset(Tail(sorted), item)
       ELSE <<item>> \o sorted

RECURSIVE sortByOffset(_)
sortByOffset(items) ==
  IF items = <<>> THEN <<>>
  ELSE insertByOffset(sortByOffset(SubSeq(items, 1, Len(items) - 1)), items[Len(items)])

isDirect(item) == ~item.isComputed

\* slotToInfo.get(slot): the non-computed variables declared at the slot, in layout order.
directAt(slot, storageLayout) ==
  SelectSeq(SelectSeq(storageLayout, isDirect), LAMBDA item : item.slot = slot)

\* Mutation of directResult: the match loses the offset of its variable.
directResultWholeWord(slot, match) ==
  SlotLabelResult(VarLabel(match.label), slot, "exact", match.type, Undefined, <<>>, Undefined)

directResult(slot, match) ==
  SlotLabelResult(VarLabel(match.label), slot, "exact", match.type, match.offset, <<>>, Undefined)

\* Mutation of directMatches: the matches keep the order of the layout.
directMatchesUnsorted(slot, storageLayout) ==
  LET matching == directAt(slot, storageLayout)
  IN  [i \in 1..Len(matching) |-> directResult(slot, matching[i])]

directMatches(slot, storageLayout) ==
  LET matching == sortByOffset(directAt(slot, storageLayout))
  IN  [i \in 1..Len(matching) |-> directResult(slot, matching[i])]

\* Pass 2 keeps the mappings whose value type is not itself a mapping.
isSimpleMapping(item) == item.encoding = "mapping" /\ ~includesMapping(item.valueType)

\* Mutation of mappingKeyMatches: a match for every key, whatever slot it computes.
RECURSIVE mappingKeyMatchesUnchecked(_, _, _)
mappingKeyMatchesUnchecked(slot, mapping, keys) ==
  IF keys = <<>> THEN <<>>
  ELSE <<SlotLabelResult(VarLabel(mapping.label), slot, "mapping", mapping.valueType,
                         Undefined, <<Head(keys)>>, Undefined)>>
       \o mappingKeyMatchesUnchecked(slot, mapping, Tail(keys))

\* Mutation of mappingKeyMatches: only the keys typed as the mapping's key type are tried.
RECURSIVE mappingKeyMatchesTyped(_, _, _)
mappingKeyMatchesTyped(slot, mapping, keys) ==
  IF keys = <<>> THEN <<>>
  ELSE (IF Head(keys).type = mapping.keyType /\ computeMappingSlot(mapping.slot, Head(keys)) = slot
        THEN <<SlotLabelResult(VarLabel(mapping.label), slot, "mapping", mapping.valueType,
                               Undefined, <<Head(keys)>>, Undefined)>>
        ELSE <<>>)
       \o mappingKeyMatchesTyped(slot, mapping, Tail(keys))

\* potentialKeys.forEach for one mapping: a match for each key whose computed slot is the slot.
RECURSIVE mappingKeyMatches(_, _, _)
mappingKeyMatches(slot, mapping, keys) ==
  IF keys = <<>> THEN <<>>
  ELSE (IF computeMappingSlot(mapping.slot, Head(keys)) = slot
        THEN <<SlotLabelResult(VarLabel(mapping.label), slot, "mapping", mapping.valueType,
                               Undefined, <<Head(keys)>>, Undefined)>>
        ELSE <<>>)
       \o mappingKeyMatches(slot, mapping, Tail(keys))

RECURSIVE mappingMatches(_, _, _)
mappingMatches(slot, mappings, potentialKeys) ==
  IF mappings = <<>> THEN <<>>
  ELSE mappingKeyMatches(slot, Head(mappings), potentialKeys)
       \o mappingMatches(slot, Tail(mappings), potentialKeys)

\* The ordered pairs (i, j) of key positions, i outer and j inner, as the two forEach visit them.
keyPairs(n) == [p \in 1..(n * n) |-> <<((p - 1) \div n) + 1, ((p - 1) % n) + 1>>]

RECURSIVE nestedPairMatches(_, _, _, _)
nestedPairMatches(slot, mapping, potentialKeys, pairs) ==
  IF pairs = <<>> THEN <<>>
  ELSE LET i == Head(pairs)[1]
           j == Head(pairs)[2]
           keys == <<potentialKeys[i], potentialKeys[j]>>
       IN  (IF i # j /\ computeNestedMappingSlot(mapping.slot, keys) = slot
            THEN <<SlotLabelResult(VarLabel(mapping.label), slot, "nested-mapping",
                                   mapping.valueType, Undefined, keys, Undefined)>>
            ELSE <<>>)
           \o nestedPairMatches(slot, mapping, potentialKeys, Tail(pairs))

RECURSIVE nestedMatches(_, _, _)
nestedMatches(slot, nestedMappings, potentialKeys) ==
  IF nestedMappings = <<>> THEN <<>>
  ELSE nestedPairMatches(slot, Head(nestedMappings), potentialKeys, keyPairs(Len(potentialKeys)))
       \o nestedMatches(slot, Tail(nestedMappings), potentialKeys)

isDynamicArray(item) == item.encoding = "dynamic_array"

RECURSIVE arrayKeyMatches(_, _, _)
arrayKeyMatches(slot, array, keys) ==
  IF keys = <<>> THEN <<>>
  ELSE (IF isValidArrayIndex(Head(keys).hex)
           /\ computeArraySlot(array.slot, hexToBigInt(Head(keys).hex)) = slot
        THEN <<SlotLabelResult(VarLabel(array.label), slot, "array", array.baseType,
                               Undefined, <<>>, Head(keys).hex)>>
        ELSE <<>>)
       \o arrayKeyMatches(slot, array, Tail(keys))

RECURSIVE arrayMatches(_, _, _)
arrayMatches(slot, arrays, potentialKeys) ==
  IF arrays = <<>> THEN <<>>
  ELSE arrayKeyMatches(slot, Head(arrays), potentialKeys)
       \o arrayMatches(slot, Tail(arrays), potentialKeys)

\* computeArraySlot throws (toHex with size 32) for some array and some valid index.
arrayPassThrows(arrays, potentialKeys) ==
  \E a \in 1..Len(arrays) : \E k \in 1..Len(potentialKeys) :
    /\ isValidArrayIndex(potentialKeys[k].hex)
    /\ computeArraySlot(arrays[a].slot, hexToBigInt(potentialKeys[k].hex)) = IntegerOutOfRange

Returned(results) == [threw |-> FALSE, results |-> results]

Thrown == [threw |-> TRUE, results |-> <<>>]

\* Mutation of findLayoutInfoAtSlot: a slot of an account with no layout is an error.
findLayoutInfoRequiringLayout(slot, storageLayout, potentialKeys) ==
  IF Len(storageLayout) = 0 THEN Thrown
  ELSE IF Len(directAt(slot, storageLayout)) > 0 THEN Returned(directMatches(slot, storageLayout))
  ELSE Returned(<<fallbackResult(slot)>>)

findLayoutInfoAtSlot(slot, storageLayout, potentialKeys) ==
  LET mappings == SelectSeq(storageLayout, isSimpleMapping)
      nestedMappings == SelectSeq(mappings, LAMBDA m : includesMapping(m.valueType))
      arrays == SelectSeq(storageLayout, isDynamicArray)
      results == mappingMatches(slot, mappings, potentialKeys)
                 \o nestedMatches(slot, nestedMappings, potentialKeys)
                 \o arrayMatches(slot, arrays, potentialKeys)
  IN  IF Len(storageLayout) = 0 THEN Returned(<<fallbackResult(slot)>>)
      ELSE IF Len(directAt(slot, storageLayout)) > 0 THEN Returned(directMatches(slot, storageLayout))
      ELSE IF arrayPassThrows(arrays, potentialKeys) THEN Thrown
      ELSE IF Len(results) = 0 THEN Returned(<<fallbackResult(slot)>>)
      ELSE Returned(results)

(***************************************************************************)
(* The older slot engine (src/src/lib/slot-engine.ts).                     *)
(* A slot given as a string is modelled as a HexString: its value and the  *)
(* number of hex digits written (leading zeros included).  A loosely typed *)
(* value (string | number | bigint) is a JsValue: its kind and its value.  *)
(***************************************************************************)
HexString(n, len) == [n |-> n, len |-> len]

RECURSIVE minDigits(_)
minDigits(n) == IF n < 16 THEN 1 ELSE 1 + minDigits(n \div 16)

\* The 32-byte hex string of a word (keccak256's output, padHex(.., {size: 32})).
paddedHex(n) == HexString(n, HexDigits)

JsHex(n) == [kind |-> "hex", n |-> n]

JsNumber(n) == [kind |-> "number", n |-> n]

\* normalizeSlot: lower case, leading zeros removed, "0x0" for zero.
normalizeSlot(slot) == HexString(slot.n, minDigits(slot.n))

\* normalizeSlot of a number or bigint (a layout's slot): toHex(slot), leading zeros removed.
normalizeNumber(n) == HexString(n, minDigits(n))

\* parseInt(normalizedSlot.replace(/^0x/, ""), 16)
slotNumOf(normalizedSlot) == normalizedSlot.n

\* padHex(toHex(baseSlot), {size: 32}): toHex of a number is its hex; toHex of a string is
\* the hex of its characters, and the 66 characters of a 32-byte hex string do not fit 32 bytes.
slotEngine_slotHex(baseSlot) == IF baseSlot.kind = "number" THEN baseSlot.n ELSE IntegerOutOfRange

\* computeMappingSlot of slot-engine.ts: the hash as a JsValue, or IntegerOutOfRange for a throw.
slotEngine_computeMappingSlot(baseSlot, key, keyType) ==
  IF slotEngine_slotHex(baseSlot) = IntegerOutOfRange THEN IntegerOutOfRange
  ELSE keccak256(<<key.n, slotEngine_slotHex(baseSlot)>>)

RECURSIVE slotEngine_computeNestedMappingSlot(_, _, _)
slotEngine_computeNestedMappingSlot(baseSlot, keys, keyTypes) ==
  IF Len(keys) = 0 THEN baseSlot.n
  ELSE LET slot == slotEngine_computeMappingSlot(baseSlot, Head(keys), Head(keyTypes))
       IN  IF slot = IntegerOutOfRange \/ Len(keys) = 1 THEN slot
           ELSE slotEngine_computeNestedMappingSlot(JsHex(slot), Tail(keys), Tail(keyTypes))

\* computeArraySlot of slot-engine.ts: toHex(hash + index) with no size, so no wrap and no throw.
slotEngine_computeArraySlot(baseSlot, index) == keccak256(<<slotEngine_slotHex(baseSlot)>>) + index

\* isValidArrayIndex of slot-engine.ts: a number is accepted whatever its size, a hex string below 1000000.
slotEngine_isValidArrayIndex(value) ==
  IF value.kind = "number" THEN value.n >= 0 ELSE value.n >= 0 /\ value.n < 1000000

TraceValue(value, source, operation) == [value |-> value, source |-> source, operation |-> operation]

slotEngine_Label(name, num, keys) == [name |-> name, num |-> num, keys |-> keys]

slotEngine_Result(label, slot, matchType, type, keys, keySources, offset) ==
  [label |-> label, slot |-> slot, matchType |-> matchType, type |-> type,
   keys |-> keys, keySources |-> keySources, offset |-> offset]

\* The fallback of slot-engine.ts: `var<slotNum>`, typed uint256, and only for slot numbers below 100.
slotEngine_fallback(slot, normalizedSlot) ==
  IF slotNumOf(normalizedSlot) >= 0 /\ slotNumOf(normalizedSlot) < 100
  THEN <<slotEngine_Result(slotEngine_Label("var", slotNumOf(normalizedSlot), <<>>), slot,
                           "exact", "uint256", <<>>, <<>>, Undefined)>>
  ELSE <<>>

slotEngine_directAt(normalizedSlot, storageLayout) ==
  SelectSeq(SelectSeq(storageLayout, isDirect),
            LAMBDA item : normalizeNumber(item.slot).n = normalizedSlot.n)

\* (a, b) => (a.offset || 0) - (b.offset || 0): the same order as offset ?? 0.
slotEngine_directMatches(slot, normalizedSlot, storageLayout) ==
  LET matching == sortByOffset(slotEngine_directAt(normalizedSlot, storageLayout))
  IN  [i \in 1..Len(matching) |->
         slotEngine_Result(slotEngine_Label(matching[i].label, Undefined, <<>>), slot, "exact",
                           matching[i].type, <<>>, <<>>, matching[i].offset)]

slotEngine_hasBaseSlot(item) == item.baseSlot # Undefined /\ item.baseSlot # 0

slotEngine_isMapping(item) == item.encoding = "mapping" /\ slotEngine_hasBaseSlot(item)

RECURSIVE slotEngine_mappingKeyMatches(_, _, _, _)
slotEngine_mappingKeyMatches(slot, normalizedSlot, mapping, values) ==
  IF values = <<>> THEN <<>>
  ELSE (IF normalizeSlot(paddedHex(slotEngine_computeMappingSlot(
                JsNumber(mapping.baseSlot), Head(values).value, mapping.keyType))) = normalizedSlot
        THEN <<slotEngine_Result(slotEngine_Label(mapping.label, Undefined, <<Head(values).value>>),
                                 slot, "mapping", mapping.valueType, <<Head(values).value>>,
                                 <<Head(values)>>, Undefined)>>
        ELSE <<>>)
       \o slotEngine_mappingKeyMatches(slot, normalizedSlot, mapping, Tail(values))

RECURSIVE slotEngine_mappingMatches(_, _, _, _)
slotEngine_mappingMatches(slot, normalizedSlot, mappings, values) ==
  IF mappings = <<>> THEN <<>>
  ELSE (IF includesMapping(Head(mappings).valueType) THEN <<>>
        ELSE slotEngine_mappingKeyMatches(slot, normalizedSlot, Head(mappings), values))
       \o slotEngine_mappingMatches(slot, normalizedSlot, Tail(mappings), values)

RECURSIVE slotEngine_nestedPairMatches(_, _, _, _, _)
slotEngine_nestedPairMatches(slot, normalizedSlot, mapping, values, pairs) ==
  IF pairs = <<>> THEN <<>>
  ELSE LET i == Head(pairs)[1]
           j == Head(pairs)[2]
           keys == <<values[i].value, values[j].value>>
           computed == slotEngine_computeNestedMappingSlot(
                         JsNumber(mapping.baseSlot), keys, <<mapping.keyType, "address">>)
       IN  (IF i # j /\ computed # IntegerOutOfRange
               /\ normalizeSlot(paddedHex(computed)) = normalizedSlot
            THEN <<slotEngine_Result(slotEngine_Label(mapping.label, Undefined, keys), slot,
                                     "nested-mapping", mapping.valueType, keys,
                                     <<values[i], values[j]>>, Undefined)>>
            ELSE <<>>)
           \o slotEngine_nestedPairMatches(slot, normalizedSlot, mapping, values, Tail(pairs))

RECURSIVE slotEngine_nestedMatches(_, _, _, _)
slotEngine_nestedMatches(slot, normalizedSlot, nestedMappings, values) ==
  IF nestedMappings = <<>> THEN <<>>
  ELSE slotEngine_nestedPairMatches(slot, normalizedSlot, Head(nestedMappings), values,
                                    keyPairs(Len(values)))
       \o slotEngine_nestedMatches(slot, normalizedSlot, Tail(nestedMappings), values)

slotEngine_isArray(item) == item.encoding = "dynamic_array" /\ slotEngine_hasBaseSlot(item)

RECURSIVE slotEngine_arrayKeyMatches(_, _, _, _)
slotEngine_arrayKeyMatches(slot, normalizedSlot, array, values) ==
  IF values = <<>> THEN <<>>
  ELSE (IF slotEngine_isValidArrayIndex(Head(values).value)
           /\ slotEngine_computeArraySlot(JsNumber(array.baseSlot), Head(values).value.n)
                = normalizedSlot.n
        THEN <<slotEngine_Result(
                 slotEngine_Label(array.label, Undefined, <<JsNumber(Head(values).value.n)>>),
                 slot, "array", array.baseType, <<JsNumber(Head(values).value.n)>>,
                 <<Head(values)>>, Undefined)>>
        ELSE <<>>)
       \o slotEngine_arrayKeyMatches(slot, normalizedSlot, array, Tail(values))

RECURSIVE slotEngine_arrayMatches(_, _, _, _)
slotEngine_arrayMatches(slot, normalizedSlot, arrays, values) ==
  IF arrays = <<>> THEN <<>>
  ELSE slotEngine_arrayKeyMatches(slot, normalizedSlot, Head(arrays), values)
       \o slotEngine_arrayMatches(slot, normalizedSlot, Tail(arrays), values)

findBestStorageSlotLabel(slot, storageLayout, potentialValues) ==
  LET normalizedSlot == normalizeSlot(slot)
      mappings == SelectSeq(storageLayout, slotEngine_isMapping)
      nestedMappings == SelectSeq(mappings, LAMBDA m : includesMapping(m.valueType))
      arrays == SelectSeq(storageLayout, slotEngine_isArray)
      results == slotEngine_mappingMatches(slot, normalizedSlot, mappings, potentialValues)
                 \o slotEngine_nestedMatches(slot, normalizedSlot, nestedMappings, potentialValues)
                 \o slotEngine_arrayMatches(slot, normalizedSlot, arrays, potentialValues)
  IN  IF Len(storageLayout) = 0 THEN slotEngine_fallback(normalizedSlot, normalizedSlot)
      ELSE IF Len(slotEngine_directAt(normalizedSlot, storageLayout)) > 0
           THEN slotEngine_directMatches(slot, normalizedSlot, storageLayout)
      ELSE IF Len(results) = 0 THEN slotEngine_fallback(slot, normalizedSlot)
      ELSE results

\* txData.data.slice(paramStart, paramEnd): the 64 hex characters of a parameter, with no
\* "0x" in front.
JsRaw(n) == [kind |-> "raw", n |-> n]

\* BigInt(..) of a string that is not a number throws a SyntaxError.
SyntaxError == -3

\* 2n ** 128n, half a word: "very large numbers that are likely hashes" start here.
Uint128Limit == 64 * 64

\* BigInt(param) of hex characters with no "0x" in front: the characters are read as a
\* decimal number, and a character a..f makes it throw.
RECURSIVE decimalReading(_)
decimalReading(n) ==
  IF n < 16 THEN (IF n < 10 THEN n ELSE SyntaxError)
  ELSE LET high == decimalReading(n \div 16)
       IN  IF high = SyntaxError \/ (n % 16) >= 10 THEN SyntaxError
           ELSE (10 * high) + (n % 16)

\* The constants 0..9 "that might be used as array indices".
slotEngine_constants == [i \in 1..10 |-> TraceValue(JsNumber(i - 1), "constant", "CONST")]

\* The values of one parameter: the raw characters and, when they read as a number below
\* 2^128, that number.  The raw characters never start with "0x", so no ADDRESS_ARG.
slotEngine_paramValues(param) ==
  <<TraceValue(JsRaw(param), "argument", "ARG")>>
  \o (IF decimalReading(param) # SyntaxError /\ decimalReading(param) < Uint128Limit
      THEN <<TraceValue(JsNumber(decimalReading(param)), "argument", "NUMBER_ARG")>>
      ELSE <<>>)

RECURSIVE slotEngine_argValues(_)
slotEngine_argValues(params) ==
  IF params = <<>> THEN <<>>
  ELSE slotEngine_paramValues(Head(params)) \o slotEngine_argValues(Tail(params))

\* The stack values below 2^128, as the strings they are.
RECURSIVE slotEngine_stackValues(_)
slotEngine_stackValues(stack) ==
  IF stack = <<>> THEN <<>>
  ELSE (IF Head(stack) < Uint128Limit THEN <<TraceValue(JsHex(Head(stack)), "stack", "STACK")>>
        ELSE <<>>)
       \o slotEngine_stackValues(Tail(stack))

\* uniqueMap.set(`${value}::${source}::${operation}`, v): one entry per value, source and
\* operation, at the place of the first.
RECURSIVE slotEngine_dedupe(_, _)
slotEngine_dedupe(unique, values) ==
  IF values = <<>> THEN unique
  ELSE slotEngine_dedupe(
         IF \E i \in 1..Len(unique) : unique[i] = Head(values) THEN unique
         ELSE Append(unique, Head(values)),
         Tail(values))

\* txData = {from, to, data}.
extractPotentialValuesFromTrace(trace, txData) ==
  slotEngine_dedupe(<<>>,
    <<TraceValue(JsHex(txData.from), "address", "FROM"),
      TraceValue(JsHex(txData.to), "address", "TO")>>
    \o slotEngine_constants
    \o (IF txData.data.hasData THEN slotEngine_argValues(txData.data.args) ELSE <<>>)
    \o slotEngine_stackValues(trace.uniqueStackValues))

(***************************************************************************)
(* extractPotentialKeys (src/unnamed/part_004)                             *)
(*   trace.uniqueStackValues : a sequence of 32-byte hex words             *)
(*   addresses               : a sequence of addresses                     *)
(*   abiFunctions            : a sequence of [selector, inputs]            *)
(*   txData                  : [selector, args], args the 32-byte words    *)
(*                             that follow the 4-byte selector             *)
(***************************************************************************)
\* padHex(address, {size: 32}): the address as a 32-byte word.
padHex32(n) == n

AbiFunction(selector, inputs) == [selector |-> selector, inputs |-> inputs]

TxData(selector, args) == [hasData |-> TRUE, selector |-> selector, args |-> args]

\* No calldata (txData undefined or empty).
NoTxData == [hasData |-> FALSE, selector |-> "", args |-> <<>>]

\* Mutation of findInputs: the inputs of the first function, whatever its selector.
findInputsAnySelector(abiFunctions, selector) ==
  IF abiFunctions = <<>> THEN [found |-> FALSE, inputs |-> <<>>]
  ELSE [found |-> TRUE, inputs |-> Head(abiFunctions).inputs]

\* abiFunctions.find((fn) => fn.selector === selector)?.inputs, <<>> when there is none.
RECURSIVE findInputs(_, _)
findInputs(abiFunctions, selector) ==
  IF abiFunctions = <<>> THEN [found |-> FALSE, inputs |-> <<>>]
  ELSE IF Head(abiFunctions).selector = selector
       THEN [found |-> TRUE, inputs |-> Head(abiFunctions).inputs]
       ELSE findInputs(Tail(abiFunctions), selector)

\* decodeAbiParameters (viem) throws when the data is shorter than the inputs ask for.
decodeThrows(inputs, args) == Len(args) < Len(inputs)

addressKeys(addresses) ==
  [i \in 1..Len(addresses) |-> MappingKey(padHex32(addresses[i]), "address")]

\* One key per decoded (static) parameter, typed by the input it decodes.
paramKeys(inputs, args) == [i \in 1..Len(inputs) |-> MappingKey(padHex32(args[i]), inputs[i])]

stackKeys(uniqueStackValues) ==
  [i \in 1..Len(uniqueStackValues) |-> MappingKey(padHex32(uniqueStackValues[i]), NoType)]

\* The position of the entry of hex `hex` in a sequence of keys, 0 when there is none.
RECURSIVE indexOfHex(_, _, _)
indexOfHex(keys, hex, i) ==
  IF i > Len(keys) THEN 0 ELSE IF keys[i].hex = hex THEN i ELSE indexOfHex(keys, hex, i + 1)

\* uniqueMap.set(k.hex, k) when the hex is new or k is typed: a Map keeps the place of a key
\* it already holds and replaces its value.
uniqueSet(unique, k) ==
  LET at == indexOfHex(unique, k.hex, 1)
  IN  IF at = 0 THEN Append(unique, k)
      ELSE IF k.type # NoType THEN [unique EXCEPT ![at] = k]
      ELSE unique

RECURSIVE dedupeKeys(_, _)
dedupeKeys(unique, keys) ==
  IF keys = <<>> THEN unique ELSE dedupeKeys(uniqueSet(unique, Head(keys)), Tail(keys))

extractPotentialKeys(trace, addresses, abiFunctions, txData) ==
  LET found == findInputs(abiFunctions, txData.selector)
      decode == txData.hasData /\ Len(txData.args) > 0 /\ found.found
      keys == addressKeys(addresses)
              \o (IF decode /\ ~decodeThrows(found.inputs, txData.args)
                  THEN paramKeys(found.inputs, txData.args) ELSE <<>>)
              \o stackKeys(trace.uniqueStackValues)
  IN  IF decode /\ decodeThrows(found.inputs, txData.args) THEN [threw |-> TRUE, keys |-> <<>>]
      ELSE [threw |-> FALSE, keys |-> dedupeKeys(<<>>, keys)]

(***************************************************************************)
(* The world of the analysis: accounts, layouts, transactions              *)
(***************************************************************************)
ZeroAddress == 0

Caller == 1

\* A contract whose storage layout is known (Structs in the tests).
ContractA == 5

\* A contract for which no storage layout is found.
ContractB == 7

Contracts == {ContractA, ContractB}

Addresses == {ZeroAddress, Caller} \cup Contracts

\* The layout of ContractA: a whole-word variable, two packed variables (declared out of
\* offset order), a mapping and a nested mapping.
LayoutA ==
  << StorageSlotInfo("b", 1, 1, "uint16", "inplace", FALSE, NoType, NoType, NoType, Undefined),
     StorageSlotInfo("precedingValue", 0, 0, "uint8", "inplace", FALSE, NoType, NoType, NoType, Undefined),
     StorageSlotInfo("a", 1, 0, "uint8", "inplace", FALSE, NoType, NoType, NoType, Undefined),
     StorageSlotInfo("balances", 2, 0, "mapping(address => uint256)", "mapping", FALSE,
                     "uint256", NoType, "address", 2),
     StorageSlotInfo("allowances", 3, 0, "mapping(address => mapping(address => uint256))",
                     "mapping", FALSE, "mapping(address => uint256)", NoType, "address", 3) >>

PackedSlot == 1

BalanceSlot == computeMappingSlot(2, MappingKey(padHex32(Caller), "address"))

\* The slots a transaction may touch in each contract.
SlotsOf(c) == IF c = ContractA THEN {PackedSlot, BalanceSlot} ELSE {PackedSlot}

\* The words a transaction may store: 1 changes the low byte only, 256 the second byte only.
Vals == {1, 256}

MaxAccess == 2

MaxRuns == 2

Procs == {1, 2}

Touch(c, slot, val) == [account |-> c, slot |-> slot, val |-> val]

\* What a transaction does: the (account, slot) pairs it accesses, each with the word it
\* stores there, or Undefined for a slot it only loads.
Touches == {Touch(c, s, v) : c \in Contracts, s \in {PackedSlot, BalanceSlot}, v \in Vals \cup {Undefined}}

TxEffects ==
  {e \in SUBSET {t \in Touches : t.slot \in SlotsOf(t.account)} :
     /\ Cardinality(e) >= 1
     /\ Cardinality(e) <= MaxAccess
     /\ \A t1 \in e : \A t2 \in e : (t1.account = t2.account /\ t1.slot = t2.slot) => t1 = t2}

\* accessList of a call: account -> the set of slots accessed.
accessListOf(effects) ==
  [c \in {t.account : t \in effects} |-> {t.slot : t \in {u \in effects : u.account = c}}]

(***************************************************************************)
(* @/lib/access-list (not among the sources: modelled from the            *)
(* specification's AccessDiffer)                                           *)
(***************************************************************************)
\* storageSnapshot(client, accessList): the word at every listed slot of every listed account.
storageSnapshot(store, accessList) ==
  [c \in DOMAIN accessList |-> [s \in accessList[c] |-> store[c][s]]]

\* intrinsicSnapshot(client, addresses): the account state of every address.
intrinsicSnapshot(nonces, addresses) ==
  [a \in {addresses[i] : i \in 1..Len(addresses)} |-> [nonce |-> nonces[a]]]

StorageOp(current, next) == [current |-> current, next |-> next]

wordAt(snapshot, slot) == IF slot \in DOMAIN snapshot THEN snapshot[slot] ELSE 0

\* storageDiff(pre, post): an unchanged slot is a read, a changed slot a write.
storageDiff(pre, post) ==
  LET slots == DOMAIN pre \cup DOMAIN post
  IN  [reads |-> [s \in {x \in slots : wordAt(pre, x) = wordAt(post, x)} |->
                    StorageOp(wordAt(pre, s), Undefined)],
       writes |-> [s \in {x \in slots : wordAt(pre, x) # wordAt(post, x)} |->
                    StorageOp(wordAt(pre, s), wordAt(post, s))]]

EmptyMap == [x \in {} |-> 0]

NoSlotsDiff == [reads |-> EmptyMap, writes |-> EmptyMap]

intrinsicDiff(pre, post) ==
  [nonce |-> [current |-> pre.nonce, next |-> IF pre.nonce = post.nonce THEN Undefined ELSE post.nonce]]

createAccountDiff(slotsDiff, accountDiff) ==
  [reads |-> slotsDiff.reads, writes |-> slotsDiff.writes, intrinsic |-> accountDiff]

(***************************************************************************)
(* @/lib/storage-layout (not among the sources: modelled from the         *)
(* specification's LayoutSource and TraceAssembler)                        *)
(***************************************************************************)
\* The byte width of a declared type (the scaled word is WordBytes wide).
typeSize(type) ==
  IF type \in {"uint8", "bool"} THEN 1 ELSE IF type = "uint16" THEN 2 ELSE WordBytes

\* extractSubWord(word, offset, size): the bytes [offset, offset + size) counted from the low end.
extractSubWord(word, offset, size) == (word \div Pow256(offset)) % Pow256(size)

LabeledAccess(match, current, next, modified) ==
  [label |-> match.label, type |-> match.type, slot |-> match.slot, matchType |-> match.matchType,
   offset |-> match.offset, keys |-> match.keys, index |-> match.index,
   current |-> current, next |-> next, modified |-> modified]

\* The differ of the assembler: `modified` is decided on the covered sub-range.
labelMatch(op, match) ==
  LET offset == IF match.offset = Undefined THEN 0 ELSE match.offset
      size == IF match.offset = Undefined THEN WordBytes ELSE typeSize(match.type)
      current == extractSubWord(op.current, offset, size)
      next == IF op.next = Undefined THEN Undefined ELSE extractSubWord(op.next, offset, size)
  IN  LabeledAccess(match, current, next, next # Undefined /\ current # next)

\* The layout an adapter carries; no adapter (undefined) counts as no layout.
layoutOf(adapters, address) == IF address \in DOMAIN adapters THEN adapters[address] ELSE <<>>

\* formatLabeledStorageOp({op, slot, adapter, potentialKeys}): one labeled access per match.
formatLabeledStorageOp(op, slot, layout, potentialKeys) ==
  LET found == findLayoutInfoAtSlot(slot, layout, potentialKeys)
  IN  [threw |-> found.threw,
       accesses |-> [i \in 1..Len(found.results) |-> labelMatch(op, found.results[i])]]

(***************************************************************************)
(* State                                                                   *)
(***************************************************************************)
VARIABLES
  storage,          \* the client's committed storage: contract -> slot -> word
  nonces,           \* the client's committed account state: address -> nonce
  txPool,           \* the client's pending transactions, oldest first
  pc,               \* per invocation of traceStorageAccess: the await it is at
  args,             \* per invocation: the transaction traced ({from, to, data}) and its effects
  callResult,       \* per invocation: the result of client.tevmCall
  storagePreTx,     \* per invocation: the storage snapshot taken before tevmMine
  intrinsicsPreTx,  \* per invocation: the intrinsic snapshot taken before tevmMine
  storagePostTx,    \* per invocation: the storage snapshot taken after tevmMine
  intrinsicsPostTx, \* per invocation: the intrinsic snapshot taken after tevmMine
  contractsInfo,    \* per invocation: the addresses getContracts was asked about
  layoutAdapters,   \* per invocation: address -> storage layout
  labeledTrace,     \* per invocation: the value the promise resolved with
  rejection,        \* per invocation: the error the promise rejected with
  events,           \* per invocation: the client operations awaited so far (history)
  runs,             \* the number of invocations started (history)
  prevWrites,       \* the writes the previous invocation returned (history)
  rSlot,            \* resolver check: the observed slot
  rLayout,          \* resolver check: the storage layout
  rKeys,            \* resolver check: the candidate keys
  rDone,            \* resolver check: which resolvers have run
  rOut,             \* resolver check: what findLayoutInfoAtSlot returned
  rLegacy,          \* resolver check: what findBestStorageSlotLabel returned
  kIn,              \* key extraction check: the trace, addresses, ABI and transaction
  kDone,            \* key extraction check: which extractions have run
  kKeys,            \* key extraction check: what extractPotentialKeys returned
  kValues           \* key extraction check: what extractPotentialValuesFromTrace returned

clientVars == <<storage, nonces, txPool>>

frameVars == <<pc, args, callResult, storagePreTx, intrinsicsPreTx, storagePostTx,
               intrinsicsPostTx, contractsInfo, layoutAdapters, labeledTrace, rejection, events>>

historyVars == <<runs, prevWrites>>

resolverVars == <<rSlot, rLayout, rKeys, rDone, rOut, rLegacy>>

oracleVars == <<kIn, kDone, kKeys, kValues>>

vars == <<clientVars, frameVars, historyVars, resolverVars, oracleVars>>

AllSlots == {PackedSlot, BalanceSlot}

NoArgs == [run |-> 0, from |-> ZeroAddress, to |-> ZeroAddress, data |-> NoTxData, effects |-> {}]

NoCallResult ==
  [made |-> FALSE, errors |-> FALSE, accessList |-> EmptyMap, preimages |-> <<>>, stack |-> <<>>]

\* No error: the promise has not rejected.
NoError == [raised |-> FALSE, message |-> "", accessList |-> EmptyMap]

InitClient ==
  /\ storage = [c \in Contracts |-> [s \in AllSlots |-> 0]]
  /\ nonces = [a \in Addresses |-> 0]
  /\ txPool = <<>>

InitFrames ==
  /\ pc = [p \in Procs |-> "idle"]
  /\ args = [p \in Procs |-> NoArgs]
  /\ callResult = [p \in Procs |-> NoCallResult]
  /\ storagePreTx = [p \in Procs |-> EmptyMap]
  /\ intrinsicsPreTx = [p \in Procs |-> EmptyMap]
  /\ storagePostTx = [p \in Procs |-> EmptyMap]
  /\ intrinsicsPostTx = [p \in Procs |-> EmptyMap]
  /\ contractsInfo = [p \in Procs |-> {}]
  /\ layoutAdapters = [p \in Procs |-> EmptyMap]
  /\ labeledTrace = [p \in Procs |-> EmptyMap]
  /\ rejection = [p \in Procs |-> NoError]
  /\ events = [p \in Procs |-> <<>>]
  /\ runs = 0
  /\ prevWrites = {}

InitResolverIdle ==
  /\ rSlot = 0
  /\ rLayout = <<>>
  /\ rKeys = <<>>
  /\ rDone = {}
  /\ rOut = Returned(<<>>)
  /\ rLegacy = <<>>

NoKeyInput ==
  [uniqueStackValues |-> <<>>, addresses |-> <<>>, abiFunctions |-> <<>>, data |-> NoTxData,
   from |-> ZeroAddress, to |-> ZeroAddress]

InitOracleIdle ==
  /\ kIn = NoKeyInput
  /\ kDone = {}
  /\ kKeys = [threw |-> FALSE, keys |-> <<>>]
  /\ kValues = <<>>

Init == InitClient /\ InitFrames /\ InitResolverIdle /\ InitOracleIdle

(***************************************************************************)
(* The client (tevm MemoryClient): the environment of the analysis         *)
(***************************************************************************)
PendingTx(owner, from, effects) == [owner |-> owner, from |-> from, effects |-> effects]

\* The storage after one transaction is included.
applyEffects(store, effects) ==
  [c \in Contracts |-> [s \in AllSlots |->
     IF \E t \in effects : t.account = c /\ t.slot = s /\ t.val # Undefined
     THEN (CHOOSE t \in effects : t.account = c /\ t.slot = s).val
     ELSE store[c][s]]]

RECURSIVE mineAll(_, _)
mineAll(store, pool) ==
  IF pool = <<>> THEN store ELSE mineAll(applyEffects(store, Head(pool).effects), Tail(pool))

\* Every included transaction raises its sender's nonce by one.
minedNonces(ns, pool) ==
  [a \in Addresses |-> ns[a] + Cardinality({i \in 1..Len(pool) : pool[i].from = a})]

\* The accounts a call touches: the zero address (the block's coinbase), the sender, the
\* target, and every other contract it accesses.
preimagesOf(from, to, effects) ==
  <<ZeroAddress, from, to>>
  \o (IF \E t \in effects : t.account = ContractB /\ to # ContractB THEN <<ContractB>> ELSE <<>>)

\* The transaction of this invocation is included in a block.
ownCommitted(p) ==
  callResult[p].made /\ \A i \in 1..Len(txPool) : txPool[i].owner # args[p].run

\* The functions of the ABI getContracts returns for a contract.
abiOf(address) ==
  IF address = ContractA THEN <<AbiFunction("setBalance", <<"address">>)>> ELSE <<>>

\* The storage layout getStorageLayoutAdapter returns for a contract.
layoutSource(address) == IF address = ContractA THEN LayoutA ELSE <<>>

(***************************************************************************)
(* traceStorageAccess (src/src/lib/trace.ts)                               *)
(***************************************************************************)
\* Mutation of nextStep: the transaction is mined right after the call, before the
\* snapshots meant to see the state it started from.
nextStepMineFirst(step) ==
  CASE step = "tevmCall" -> "tevmMine"
    [] step = "tevmMine" -> "storagePre"
    [] step = "storagePre" -> "intrinsicsPre"
    [] step = "intrinsicsPre" -> "storagePost"
    [] step = "storagePost" -> "intrinsicsPost"
    [] step = "intrinsicsPost" -> "getContracts"
    [] step = "getContracts" -> "getLayoutAdapters"
    [] step = "getLayoutAdapters" -> "label"
    [] OTHER -> "done"

\* The order of the awaits of traceStorageAccess.
nextStep(step) ==
  CASE step = "tevmCall" -> "storagePre"
    [] step = "storagePre" -> "intrinsicsPre"
    [] step = "intrinsicsPre" -> "tevmMine"
    [] step = "tevmMine" -> "storagePost"
    [] step = "storagePost" -> "intrinsicsPost"
    [] step = "intrinsicsPost" -> "getContracts"
    [] step = "getContracts" -> "getLayoutAdapters"
    [] step = "getLayoutAdapters" -> "label"
    [] OTHER -> "done"

AwaitSteps == {"storagePre", "intrinsicsPre", "tevmMine", "storagePost", "intrinsicsPost",
               "getContracts", "getLayoutAdapters"}

Event(op, committed) == [op |-> op, committed |-> committed]

\* Object.values(callResult.preimages).filter((address) => address !== zero address)
addressesOf(result) == SelectSeq(result.preimages, LAMBDA a : a # ZeroAddress)

\* Mutation of filteredContracts: one storage snapshot is enough for an address to be kept.
filteredContractsEither(addresses, pre, post) ==
  SelectSeq(addresses, LAMBDA a : a \in DOMAIN pre \/ a \in DOMAIN post)

\* addresses.filter: the addresses that have a storage snapshot before and after.
filteredContracts(addresses, pre, post) ==
  SelectSeq(addresses, LAMBDA a : a \in DOMAIN pre /\ a \in DOMAIN post)

seqToSet(seq) == {seq[i] : i \in 1..Len(seq)}

RECURSIVE flatAbis(_)
flatAbis(infos) == IF infos = <<>> THEN <<>> ELSE abiOf(Head(infos)) \o flatAbis(Tail(infos))

\* Object.values(contractsInfo).flatMap((contract) => contract.abi), in address order.
abisOf(addresses, infos) == flatAbis(SelectSeq(addresses, LAMBDA a : a \in infos))

\* Mutation of slotsDiffOf: the two snapshots are passed to storageDiff the wrong way round.
slotsDiffSwapped(address, pre, post) ==
  IF address \in DOMAIN pre /\ address \in DOMAIN post
  THEN storageDiff(post[address], pre[address])
  ELSE NoSlotsDiff

\* storage.pre && storage.post ? storageDiff(storage.pre, storage.post) : {reads: {}, writes: {}}
slotsDiffOf(address, pre, post) ==
  IF address \in DOMAIN pre /\ address \in DOMAIN post
  THEN storageDiff(pre[address], post[address])
  ELSE NoSlotsDiff

accountDiffOf(address, pre, post, ipre, ipost) ==
  createAccountDiff(slotsDiffOf(address, pre, post), intrinsicDiff(ipre[address], ipost[address]))

\* Mutation of labeledReads: the reads are built from trace.writes.
labeledReadsFromWrites(trace, layout, potentialKeys) ==
  [s \in DOMAIN trace.writes |->
     formatLabeledStorageOp(trace.writes[s], s, layout, potentialKeys).accesses]

labeledReads(trace, layout, potentialKeys) ==
  [s \in DOMAIN trace.reads |->
     formatLabeledStorageOp(trace.reads[s], s, layout, potentialKeys).accesses]

\* Mutation of labeledWrites: the writes are built from trace.reads.
labeledWritesFromReads(trace, layout, potentialKeys) ==
  [s \in DOMAIN trace.reads |->
     formatLabeledStorageOp(trace.reads[s], s, layout, potentialKeys).accesses]

labeledWrites(trace, layout, potentialKeys) ==
  [s \in DOMAIN trace.writes |->
     formatLabeledStorageOp(trace.writes[s], s, layout, potentialKeys).accesses]

StorageAccessTrace(trace, layout, potentialKeys) ==
  [reads |-> labeledReads(trace, layout, potentialKeys),
   writes |-> labeledWrites(trace, layout, potentialKeys),
   intrinsic |-> trace.intrinsic]

\* Mutation of keptAddresses: an account whose intrinsic state did not change is skipped too.
keptAddressesChanged(addresses, ipre, ipost) ==
  {a \in {addresses[i] : i \in 1..Len(addresses)} :
     a \in DOMAIN ipre /\ a \in DOMAIN ipost /\ ipre[a] # ipost[a]}

\* The addresses the reduce keeps: those with an intrinsic snapshot before and after.
keptAddresses(addresses, ipre, ipost) ==
  {a \in seqToSet(addresses) : a \in DOMAIN ipre /\ a \in DOMAIN ipost}

\* addresses.reduce(...): the labeled trace of every kept address.
labeledTraceOf(addresses, pre, post, ipre, ipost, adapters, potentialKeys) ==
  [a \in keptAddresses(addresses, ipre, ipost) |->
     StorageAccessTrace(accountDiffOf(a, pre, post, ipre, ipost), layoutOf(adapters, a), potentialKeys)]

\* Some formatLabeledStorageOp of the reduce throws.
labelingThrows(addresses, pre, post, ipre, ipost, adapters, potentialKeys) ==
  \E a \in keptAddresses(addresses, ipre, ipost) :
    LET trace == accountDiffOf(a, pre, post, ipre, ipost)
    IN  \/ \E s \in DOMAIN trace.reads :
             formatLabeledStorageOp(trace.reads[s], s, layoutOf(adapters, a), potentialKeys).threw
        \/ \E s \in DOMAIN trace.writes :
             formatLabeledStorageOp(trace.writes[s], s, layoutOf(adapters, a), potentialKeys).threw

\* Mutation of rejected: a failure hands back what the snapshots taken so far give.
rejectedWithPartial(p) ==
  labeledTraceOf(addressesOf(callResult[p]), storagePreTx[p], storagePostTx[p],
                 intrinsicsPreTx[p], intrinsicsPostTx[p], layoutAdapters[p], <<>>)

\* What the caller gets when the promise rejects: nothing.
rejected(p) == EmptyMap

\* The writes of a returned trace, as (account, slot, label, next).
writesOf(trace) ==
  {[account |-> a, slot |-> s, label |-> trace[a].writes[s][i].label, next |-> trace[a].writes[s][i].next] :
     <<a, s, i>> \in {x \in (DOMAIN trace) \X AllSlots \X (1..3) :
                        /\ x[2] \in DOMAIN trace[x[1]].writes
                        /\ x[3] \in DOMAIN trace[x[1]].writes[x[2]]}}

\* Only one invocation runs at a time.
MayStart(p) == p = 1

\* traceStorageAccess(args) is called: getUnifiedParams resolves {client, from, to, data}.
Invoke(p, transactions) ==
  /\ pc[p] \in {"idle", "done", "failed"}
  /\ runs < MaxRuns
  /\ \E effects \in transactions :
       args' = [args EXCEPT ![p] =
                  [run |-> runs + 1, from |-> Caller,
                   to |-> IF \E t \in effects : t.account = ContractA THEN ContractA ELSE ContractB,
                   data |-> TxData("setBalance", <<padHex32(Caller)>>), effects |-> effects]]
  /\ runs' = runs + 1
  /\ prevWrites' = IF pc[p] = "done" THEN writesOf(labeledTrace[p]) ELSE {}
  /\ pc' = [pc EXCEPT ![p] = "tevmCall"]
  /\ callResult' = [callResult EXCEPT ![p] = NoCallResult]
  /\ storagePreTx' = [storagePreTx EXCEPT ![p] = EmptyMap]
  /\ intrinsicsPreTx' = [intrinsicsPreTx EXCEPT ![p] = EmptyMap]
  /\ storagePostTx' = [storagePostTx EXCEPT ![p] = EmptyMap]
  /\ intrinsicsPostTx' = [intrinsicsPostTx EXCEPT ![p] = EmptyMap]
  /\ contractsInfo' = [contractsInfo EXCEPT ![p] = {}]
  /\ layoutAdapters' = [layoutAdapters EXCEPT ![p] = EmptyMap]
  /\ labeledTrace' = [labeledTrace EXCEPT ![p] = EmptyMap]
  /\ rejection' = [rejection EXCEPT ![p] = NoError]
  /\ events' = [events EXCEPT ![p] = <<>>]
  /\ UNCHANGED <<clientVars, resolverVars, oracleVars>>

\* One caller, who awaits each analysis before starting the next.
Start(p) == MayStart(p) /\ Invoke(p, TxEffects)

\* client.tevmCall({createAccessList, createTransaction, createTrace}) succeeds: the
\* transaction is pending and the call result carries the access list and the trace.
TevmCall(p) ==
  /\ pc[p] = "tevmCall"
  /\ txPool' = Append(txPool, PendingTx(args[p].run, args[p].from, args[p].effects))
  /\ callResult' = [callResult EXCEPT ![p] =
       [made |-> TRUE, errors |-> FALSE,
        accessList |-> accessListOf(args[p].effects),
        preimages |-> preimagesOf(args[p].from, args[p].to, args[p].effects),
        stack |-> <<padHex32(args[p].from), 2>>]]
  /\ events' = [events EXCEPT ![p] = Append(@, Event("tevmCall", FALSE))]
  /\ pc' = [pc EXCEPT ![p] = nextStep("tevmCall")]
  /\ UNCHANGED <<storage, nonces, args, storagePreTx, intrinsicsPreTx, storagePostTx,
                 intrinsicsPostTx, contractsInfo, layoutAdapters, labeledTrace,
                 rejection, historyVars, resolverVars, oracleVars>>

\* new Error(callResult.errors.map((err) => err.message).join(", ")): the error thrown for
\* a call that resolved with errors carries their messages and nothing else.
revertError(result) == [raised |-> TRUE, message |-> "EVM exception", accessList |-> EmptyMap]

\* The error a rejected await rethrows.
awaitError == [raised |-> TRUE, message |-> "rejected", accessList |-> EmptyMap]

\* The result of a call the EVM reverted: errors, and the access list accumulated up to
\* the revert; no transaction is created.
revertedResult(from, to, effects) ==
  [made |-> FALSE, errors |-> TRUE, accessList |-> accessListOf(effects),
   preimages |-> preimagesOf(from, to, effects), stack |-> <<padHex32(from), 2>>]

\* Mutation of CallFails: the error of a reverted call is thrown only after the storage
\* snapshot that follows the call.
CallFailsAfterSnapshot(p) ==
  /\ pc[p] = "tevmCall"
  /\ callResult' = [callResult EXCEPT ![p] =
                      revertedResult(args[p].from, args[p].to, args[p].effects)]
  /\ rejection' = [rejection EXCEPT ![p] = revertError(callResult'[p])]
  /\ storagePreTx' = [storagePreTx EXCEPT ![p] =
                        storageSnapshot(storage, callResult'[p].accessList)]
  /\ events' = [events EXCEPT ![p] = Append(@, Event("storagePre", FALSE))]
  /\ pc' = [pc EXCEPT ![p] = "failed"]
  /\ labeledTrace' = [labeledTrace EXCEPT ![p] = rejected(p)]
  /\ UNCHANGED <<clientVars, args, intrinsicsPreTx, storagePostTx, intrinsicsPostTx,
                 contractsInfo, layoutAdapters, historyVars, resolverVars, oracleVars>>

\* client.tevmCall rejects, or resolves with callResult.errors (the EVM reverted the
\* transaction): the error is logged and thrown.
CallFails(p) ==
  /\ pc[p] = "tevmCall"
  /\ \E reverted \in BOOLEAN :
       /\ callResult' = [callResult EXCEPT ![p] =
            IF reverted THEN revertedResult(args[p].from, args[p].to, args[p].effects) ELSE @]
       /\ rejection' = [rejection EXCEPT ![p] =
            IF reverted THEN revertError(callResult'[p]) ELSE awaitError]
  /\ pc' = [pc EXCEPT ![p] = "failed"]
  /\ labeledTrace' = [labeledTrace EXCEPT ![p] = rejected(p)]
  /\ UNCHANGED <<clientVars, args, storagePreTx, intrinsicsPreTx, storagePostTx,
                 intrinsicsPostTx, contractsInfo, layoutAdapters, events, historyVars, resolverVars, oracleVars>>

StorageSnapshotPre(p) ==
  /\ pc[p] = "storagePre"
  /\ storagePreTx' = [storagePreTx EXCEPT ![p] = storageSnapshot(storage, callResult[p].accessList)]
  /\ events' = [events EXCEPT ![p] = Append(@, Event("storagePre", ownCommitted(p)))]
  /\ pc' = [pc EXCEPT ![p] = nextStep("storagePre")]
  /\ UNCHANGED <<clientVars, args, callResult, intrinsicsPreTx, storagePostTx, intrinsicsPostTx,
                 contractsInfo, layoutAdapters, labeledTrace, rejection, historyVars, resolverVars, oracleVars>>

IntrinsicSnapshotPre(p) ==
  /\ pc[p] = "intrinsicsPre"
  /\ intrinsicsPreTx' = [intrinsicsPreTx EXCEPT ![p] =
                           intrinsicSnapshot(nonces, addressesOf(callResult[p]))]
  /\ events' = [events EXCEPT ![p] = Append(@, Event("intrinsicsPre", ownCommitted(p)))]
  /\ pc' = [pc EXCEPT ![p] = nextStep("intrinsicsPre")]
  /\ UNCHANGED <<clientVars, args, callResult, storagePreTx, storagePostTx, intrinsicsPostTx,
                 contractsInfo, layoutAdapters, labeledTrace, rejection, historyVars, resolverVars, oracleVars>>

\* client.tevmMine(): every pending transaction is included, oldest first.
TevmMine(p) ==
  /\ pc[p] = "tevmMine"
  /\ storage' = mineAll(storage, txPool)
  /\ nonces' = minedNonces(nonces, txPool)
  /\ txPool' = <<>>
  /\ events' = [events EXCEPT ![p] = Append(@, Event("tevmMine", ownCommitted(p)))]
  /\ pc' = [pc EXCEPT ![p] = nextStep("tevmMine")]
  /\ UNCHANGED <<args, callResult, storagePreTx, intrinsicsPreTx, storagePostTx, intrinsicsPostTx,
                 contractsInfo, layoutAdapters, labeledTrace, rejection, historyVars, resolverVars, oracleVars>>

StorageSnapshotPost(p) ==
  /\ pc[p] = "storagePost"
  /\ storagePostTx' = [storagePostTx EXCEPT ![p] = storageSnapshot(storage, callResult[p].accessList)]
  /\ events' = [events EXCEPT ![p] = Append(@, Event("storagePost", ownCommitted(p)))]
  /\ pc' = [pc EXCEPT ![p] = nextStep("storagePost")]
  /\ UNCHANGED <<clientVars, args, callResult, storagePreTx, intrinsicsPreTx, intrinsicsPostTx,
                 contractsInfo, layoutAdapters, labeledTrace, rejection, historyVars, resolverVars, oracleVars>>

IntrinsicSnapshotPost(p) ==
  /\ pc[p] = "intrinsicsPost"
  /\ intrinsicsPostTx' = [intrinsicsPostTx EXCEPT ![p] =
                            intrinsicSnapshot(nonces, addressesOf(callResult[p]))]
  /\ events' = [events EXCEPT ![p] = Append(@, Event("intrinsicsPost", ownCommitted(p)))]
  /\ pc' = [pc EXCEPT ![p] = nextStep("intrinsicsPost")]
  /\ UNCHANGED <<clientVars, args, callResult, storagePreTx, intrinsicsPreTx, storagePostTx,
                 contractsInfo, layoutAdapters, labeledTrace, rejection, historyVars, resolverVars, oracleVars>>

\* getContracts({client, addresses: filteredContracts, explorers}): a contract the explorers
\* do not know may be missing from the answer.
GetContracts(p) ==
  /\ pc[p] = "getContracts"
  /\ \E known \in BOOLEAN :
       contractsInfo' = [contractsInfo EXCEPT ![p] =
         {a \in seqToSet(filteredContracts(addressesOf(callResult[p]), storagePreTx[p], storagePostTx[p])) :
            a = ContractA \/ known}]
  /\ events' = [events EXCEPT ![p] = Append(@, Event("getContracts", ownCommitted(p)))]
  /\ pc' = [pc EXCEPT ![p] = nextStep("getContracts")]
  /\ UNCHANGED <<clientVars, args, callResult, storagePreTx, intrinsicsPreTx, storagePostTx,
                 intrinsicsPostTx, layoutAdapters, labeledTrace, rejection, historyVars, resolverVars, oracleVars>>

\* Promise.all(getStorageLayoutAdapter(...)): one adapter per contract of contractsInfo.
GetLayoutAdapters(p) ==
  /\ pc[p] = "getLayoutAdapters"
  /\ layoutAdapters' = [layoutAdapters EXCEPT ![p] = [a \in contractsInfo[p] |-> layoutSource(a)]]
  /\ events' = [events EXCEPT ![p] = Append(@, Event("getLayoutAdapters", ownCommitted(p)))]
  /\ pc' = [pc EXCEPT ![p] = nextStep("getLayoutAdapters")]
  /\ UNCHANGED <<clientVars, args, callResult, storagePreTx, intrinsicsPreTx, storagePostTx,
                 intrinsicsPostTx, contractsInfo, labeledTrace, rejection, historyVars, resolverVars, oracleVars>>

\* The synchronous tail: extractPotentialKeys, the reduce over the addresses, the return.
LabelAndReturn(p) ==
  /\ pc[p] = "label"
  /\ LET addresses == addressesOf(callResult[p])
         extracted == extractPotentialKeys([uniqueStackValues |-> callResult[p].stack], addresses,
                                           abisOf(addresses, contractsInfo[p]), args[p].data)
         threw == \/ extracted.threw
                  \/ labelingThrows(addresses, storagePreTx[p], storagePostTx[p], intrinsicsPreTx[p],
                                    intrinsicsPostTx[p], layoutAdapters[p], extracted.keys)
     IN  /\ pc' = [pc EXCEPT ![p] = IF threw THEN "failed" ELSE nextStep("label")]
         /\ rejection' = [rejection EXCEPT ![p] = IF threw THEN awaitError ELSE @]
         /\ labeledTrace' = [labeledTrace EXCEPT ![p] =
              IF threw THEN rejected(p)
              ELSE labeledTraceOf(addresses, storagePreTx[p], storagePostTx[p], intrinsicsPreTx[p],
                                  intrinsicsPostTx[p], layoutAdapters[p], extracted.keys)]
  /\ UNCHANGED <<clientVars, args, callResult, storagePreTx, intrinsicsPreTx, storagePostTx,
                 intrinsicsPostTx, contractsInfo, layoutAdapters, events, historyVars, resolverVars, oracleVars>>

\* An awaited promise after the call rejects: the rejection propagates to the caller.
AwaitFails(p) ==
  /\ pc[p] \in AwaitSteps
  /\ pc' = [pc EXCEPT ![p] = "failed"]
  /\ labeledTrace' = [labeledTrace EXCEPT ![p] = rejected(p)]
  /\ rejection' = [rejection EXCEPT ![p] = awaitError]
  /\ UNCHANGED <<clientVars, args, callResult, storagePreTx, intrinsicsPreTx, storagePostTx,
                 intrinsicsPostTx, contractsInfo, layoutAdapters, events, historyVars, resolverVars, oracleVars>>

Next ==
  \E p \in Procs :
    \/ Start(p)
    \/ TevmCall(p)
    \/ CallFails(p)
    \/ StorageSnapshotPre(p)
    \/ IntrinsicSnapshotPre(p)
    \/ TevmMine(p)
    \/ StorageSnapshotPost(p)
    \/ IntrinsicSnapshotPost(p)
    \/ GetContracts(p)
    \/ GetLayoutAdapters(p)
    \/ LabelAndReturn(p)
    \/ AwaitFails(p)

Spec == Init /\ [][Next]_vars

(***************************************************************************)
(* The analysis against a client whose snapshots may be inconsistent       *)
(***************************************************************************)
\* The post snapshot comes back without the storage of one listed account.
StorageSnapshotPostGap(p) ==
  /\ pc[p] = "storagePost"
  /\ \E gone \in DOMAIN callResult[p].accessList :
       storagePostTx' = [storagePostTx EXCEPT ![p] =
         [c \in (DOMAIN callResult[p].accessList) \ {gone} |->
            storageSnapshot(storage, callResult[p].accessList)[c]]]
  /\ events' = [events EXCEPT ![p] = Append(@, Event("storagePost", ownCommitted(p)))]
  /\ pc' = [pc EXCEPT ![p] = nextStep("storagePost")]
  /\ UNCHANGED <<clientVars, args, callResult, storagePreTx, intrinsicsPreTx, intrinsicsPostTx,
                 contractsInfo, layoutAdapters, labeledTrace, rejection, historyVars, resolverVars, oracleVars>>

NextGap == Next \/ \E p \in Procs : StorageSnapshotPostGap(p)

SpecGap == Init /\ [][NextGap]_vars

(***************************************************************************)
(* Partial snapshots: storageSnapshot and intrinsicSnapshot answer with a  *)
(* record that may lack an account, before or after the block              *)
(***************************************************************************)
\* The analysis is invoked once.
InvokeOnce(p) == MayStart(p) /\ pc[p] = "idle" /\ Invoke(p, TxEffects)

\* storageSnapshot(client, accessList) before the block, lacking one account.
StorageSnapshotPreGap(p) ==
  /\ pc[p] = "storagePre"
  /\ \E gone \in DOMAIN callResult[p].accessList :
       storagePreTx' = [storagePreTx EXCEPT ![p] =
         [c \in (DOMAIN callResult[p].accessList) \ {gone} |->
            storageSnapshot(storage, callResult[p].accessList)[c]]]
  /\ events' = [events EXCEPT ![p] = Append(@, Event("storagePre", ownCommitted(p)))]
  /\ pc' = [pc EXCEPT ![p] = nextStep("storagePre")]
  /\ UNCHANGED <<clientVars, args, callResult, intrinsicsPreTx, storagePostTx, intrinsicsPostTx,
                 contractsInfo, layoutAdapters, labeledTrace, rejection, historyVars, resolverVars, oracleVars>>

\* intrinsicSnapshot(client, addresses) before the block, lacking one address.
IntrinsicSnapshotPreGap(p) ==
  /\ pc[p] = "intrinsicsPre"
  /\ \E gone \in seqToSet(addressesOf(callResult[p])) :
       intrinsicsPreTx' = [intrinsicsPreTx EXCEPT ![p] =
         [a \in seqToSet(addressesOf(callResult[p])) \ {gone} |->
            intrinsicSnapshot(nonces, addressesOf(callResult[p]))[a]]]
  /\ events' = [events EXCEPT ![p] = Append(@, Event("intrinsicsPre", ownCommitted(p)))]
  /\ pc' = [pc EXCEPT ![p] = nextStep("intrinsicsPre")]
  /\ UNCHANGED <<clientVars, args, callResult, storagePreTx, storagePostTx, intrinsicsPostTx,
                 contractsInfo, layoutAdapters, labeledTrace, rejection, historyVars, resolverVars, oracleVars>>

\* intrinsicSnapshot(client, addresses) after the block, lacking one address.
IntrinsicSnapshotPostGap(p) ==
  /\ pc[p] = "intrinsicsPost"
  /\ \E gone \in seqToSet(addressesOf(callResult[p])) :
       intrinsicsPostTx' = [intrinsicsPostTx EXCEPT ![p] =
         [a \in seqToSet(addressesOf(callResult[p])) \ {gone} |->
            intrinsicSnapshot(nonces, addressesOf(callResult[p]))[a]]]
  /\ events' = [events EXCEPT ![p] = Append(@, Event("intrinsicsPost", ownCommitted(p)))]
  /\ pc' = [pc EXCEPT ![p] = nextStep("intrinsicsPost")]
  /\ UNCHANGED <<clientVars, args, callResult, storagePreTx, intrinsicsPreTx, storagePostTx,
                 contractsInfo, layoutAdapters, labeledTrace, rejection, historyVars, resolverVars, oracleVars>>

NextPartial ==
  \E p \in Procs :
    \/ InvokeOnce(p)
    \/ TevmCall(p)
    \/ CallFails(p)
    \/ StorageSnapshotPre(p)
    \/ StorageSnapshotPreGap(p)
    \/ IntrinsicSnapshotPre(p)
    \/ IntrinsicSnapshotPreGap(p)
    \/ TevmMine(p)
    \/ StorageSnapshotPost(p)
    \/ StorageSnapshotPostGap(p)
    \/ IntrinsicSnapshotPost(p)
    \/ IntrinsicSnapshotPostGap(p)
    \/ GetContracts(p)
    \/ GetLayoutAdapters(p)
    \/ LabelAndReturn(p)
    \/ AwaitFails(p)

SpecPartial == Init /\ [][NextPartial]_vars

(***************************************************************************)
(* Two callers sharing one client: nothing in traceStorageAccess or in     *)
(* Tracer orders the awaits of two invocations                             *)
(***************************************************************************)
\* Each caller invokes the analysis once, on a transaction that accesses one slot.
InvokeShared(p) == pc[p] = "idle" /\ Invoke(p, {e \in TxEffects : Cardinality(e) = 1})

NextShared ==
  \E p \in Procs :
    \/ InvokeShared(p)
    \/ TevmCall(p)
    \/ CallFails(p)
    \/ StorageSnapshotPre(p)
    \/ IntrinsicSnapshotPre(p)
    \/ TevmMine(p)
    \/ StorageSnapshotPost(p)
    \/ IntrinsicSnapshotPost(p)
    \/ GetContracts(p)
    \/ GetLayoutAdapters(p)
    \/ LabelAndReturn(p)
    \/ AwaitFails(p)

SpecShared == Init /\ [][NextShared]_vars

(***************************************************************************)
(* The slot resolvers on their own: findLayoutInfoAtSlot and               *)
(* findBestStorageSlotLabel applied to a slot, a layout and candidate keys *)
(***************************************************************************)
MaxKeys == 2

\* LayoutA with a dynamic array after it.
LayoutWithArray ==
  LayoutA \o << StorageSlotInfo("numbers", 4, 0, "uint256[]", "dynamic_array", FALSE,
                                NoType, "uint256", NoType, 4) >>

\* A dynamic array whose data starts two slots below the top of the slot space.
LayoutEdge ==
  << StorageSlotInfo("edge", 6, 0, "uint256[]", "dynamic_array", FALSE, NoType, "uint256", NoType, 6) >>

\* Mappings.ridiculouslyNestedMapping: a mapping nested four levels deep, the third
\* state variable of its contract.
LayoutDeep ==
  << StorageSlotInfo("ridiculouslyNestedMapping", 2, 0,
                     "mapping(address => mapping(address => mapping(address => mapping(address => uint256))))",
                     "mapping", FALSE,
                     "mapping(address => mapping(address => mapping(address => uint256)))",
                     NoType, "address", 2) >>

LayoutMenu == {LayoutA, LayoutWithArray, LayoutEdge, LayoutDeep, <<>>}

\* The distance from the first element slot of the array at slot 4 to the slot of
\* balances[0]: as an index, it makes an element of the array fall on that mapping slot.
NearIndex == computeMappingSlot(2, MappingKey(0, NoType)) - keccak256(<<4>>)

\* The four keys a, b, c, d of a write to ridiculouslyNestedMapping[a][b][c][d].
DeepKeys ==
  << MappingKey(padHex32(Caller), "address"), MappingKey(padHex32(ContractA), NoType),
     MappingKey(0, NoType), MappingKey(2, "uint256") >>

KeyMenu == {MappingKey(padHex32(Caller), "address"), MappingKey(padHex32(ContractA), NoType),
            MappingKey(0, NoType), MappingKey(2, "uint256"), MappingKey(LIMIT, "uint256"),
            MappingKey(NearIndex, NoType)}

\* The candidate lists extractPotentialKeys can return: no two entries with the same hex.
KeyLists ==
  UNION {{ks \in [1..n -> KeyMenu] : \A i \in 1..n : \A j \in 1..n : i # j => ks[i] # ks[j]} :
           n \in 0..MaxKeys}
  \cup {DeepKeys}

SlotMenu ==
  {0, PackedSlot, 2, 4, 7, 100, 12345, WordModulus - 1,
   BalanceSlot,
   computeMappingSlot(2, MappingKey(padHex32(ContractA), NoType)),
   computeNestedMappingSlot(3, <<MappingKey(padHex32(Caller), "address"),
                                 MappingKey(padHex32(ContractA), NoType)>>),
   keccak256(<<4>>), keccak256(<<4>>) + 2, keccak256(<<6>>),
   computeMappingSlot(2, MappingKey(0, NoType)),
   computeMappingSlot(2, MappingKey(2, "uint256")),
   keccak256(<<4>>) + LIMIT,
   computeNestedMappingSlot(2, DeepKeys)}

\* The candidates as the older engine takes them: a typed number is a number, the rest hex strings.
traceValuesOf(keys) ==
  [i \in 1..Len(keys) |->
     TraceValue(IF keys[i].type = "uint256" THEN JsNumber(keys[i].hex) ELSE JsHex(keys[i].hex),
                "stack", "SLOAD")]

InitResolver ==
  /\ InitClient
  /\ InitFrames
  /\ rSlot \in SlotMenu
  /\ rLayout \in LayoutMenu
  /\ rKeys \in KeyLists
  /\ rDone = {}
  /\ rOut = Returned(<<>>)
  /\ rLegacy = <<>>
  /\ InitOracleIdle

Resolve ==
  /\ "engine" \notin rDone
  /\ rOut' = findLayoutInfoAtSlot(rSlot, rLayout, rKeys)
  /\ rDone' = rDone \cup {"engine"}
  /\ UNCHANGED <<clientVars, frameVars, historyVars, rSlot, rLayout, rKeys, rLegacy, oracleVars>>

ResolveLegacy ==
  /\ "legacy" \notin rDone
  /\ rLegacy' = findBestStorageSlotLabel(paddedHex(rSlot), rLayout, traceValuesOf(rKeys))
  /\ rDone' = rDone \cup {"legacy"}
  /\ UNCHANGED <<clientVars, frameVars, historyVars, rSlot, rLayout, rKeys, rOut, oracleVars>>

NextResolver == Resolve \/ ResolveLegacy

SpecResolver == InitResolver /\ [][NextResolver]_vars

(***************************************************************************)
(* Key extraction on its own: extractPotentialKeys and                     *)
(* extractPotentialValuesFromTrace applied to a trace and a transaction    *)
(***************************************************************************)
MaxStack == 2

\* Stack values a trace can hold: the sender's address, a small number, a number written
\* with a hex letter and a hash.
StackMenu == {padHex32(Caller), 2, 12, BalanceSlot}

\* trace.uniqueStackValues: no value twice.
StackLists ==
  UNION {{st \in [1..n -> StackMenu] : \A i \in 1..n : \A j \in 1..n : i # j => st[i] # st[j]} :
           n \in 0..MaxStack}

\* A known function with its arguments, with too few of them, with none; a function of
\* no known selector; no calldata.
DataMenu ==
  {NoTxData,
   TxData("setBalance", <<padHex32(Caller), 2>>),
   TxData("setBalance", <<padHex32(ContractB)>>),
   TxData("setBalance", <<>>),
   TxData("transfer", <<padHex32(ContractB), 12>>)}

AbiMenu == {<<>>, <<AbiFunction("setBalance", <<"address", "uint256">>)>>}

InitKeys ==
  /\ InitClient
  /\ InitFrames
  /\ InitResolverIdle
  /\ \E st \in StackLists, to \in Contracts, abi \in AbiMenu, data \in DataMenu :
       kIn = [uniqueStackValues |-> st, addresses |-> <<Caller, to>>, abiFunctions |-> abi,
              data |-> data, from |-> Caller, to |-> to]
  /\ kDone = {}
  /\ kKeys = [threw |-> FALSE, keys |-> <<>>]
  /\ kValues = <<>>

Extract ==
  /\ "engine" \notin kDone
  /\ kKeys' = extractPotentialKeys(kIn, kIn.addresses, kIn.abiFunctions, kIn.data)
  /\ kDone' = kDone \cup {"engine"}
  /\ UNCHANGED <<clientVars, frameVars, historyVars, resolverVars, kIn, kValues>>

ExtractLegacy ==
  /\ "legacy" \notin kDone
  /\ kValues' = extractPotentialValuesFromTrace(kIn, kIn)
  /\ kDone' = kDone \cup {"legacy"}
  /\ UNCHANGED <<clientVars, frameVars, historyVars, resolverVars, kIn, kKeys>>

NextKeys == Extract \/ ExtractLegacy

SpecKeys == InitKeys /\ [][NextKeys]_vars

(***************************************************************************)
(* Properties                                                              *)
(***************************************************************************)
\* The invocation has resolved with its labeled trace.
Resolved(p) == pc[p] = "done"

\* The slots the access list of the invocation names for an account.
listedSlots(p, a) ==
  IF a \in DOMAIN callResult[p].accessList THEN callResult[p].accessList[a] ELSE {}

\* The number of operations awaited before the labeling: the call and the steps after it.
AwaitCount == Cardinality(AwaitSteps) + 1

eventsAt(p, ops) == {i \in 1..Len(events[p]) : events[p][i].op \in ops}

\* C2: in every run the pre-execution storage and intrinsic snapshots are read before the
\* transaction is committed by tevmMine, and the post-execution snapshots only after the
\* commit has completed.
C2_SnapshotOrder ==
  \A p \in Procs :
    /\ \A i \in eventsAt(p, {"storagePre", "intrinsicsPre"}) :
         /\ ~events[p][i].committed
         /\ \A j \in eventsAt(p, {"tevmMine"}) : i < j
    /\ \A i \in eventsAt(p, {"storagePost", "intrinsicsPost"}) :
         /\ events[p][i].committed
         /\ \E j \in eventsAt(p, {"tevmMine"}) : j < i

\* A run that took all four snapshots around its commit.
C2_Witness ==
  \E p \in Procs :
    /\ eventsAt(p, {"storagePre"}) # {}
    /\ eventsAt(p, {"intrinsicsPre"}) # {}
    /\ eventsAt(p, {"tevmMine"}) # {}
    /\ eventsAt(p, {"storagePost"}) # {}
    /\ eventsAt(p, {"intrinsicsPost"}) # {}

\* C10: an analysis is all-or-nothing: it resolves with the complete per-address map only
\* after every await succeeded, and a failure at any await (the call, a snapshot, the
\* commit, the layout retrieval) hands the caller no result, partial or not.
C10_AllOrNothing ==
  \A p \in Procs :
    /\ ~Resolved(p) => labeledTrace[p] = EmptyMap
    /\ Resolved(p) =>
         /\ Len(events[p]) = AwaitCount
         /\ DOMAIN labeledTrace[p] = seqToSet(addressesOf(callResult[p]))

\* An analysis that failed after its transaction was committed and its snapshots taken.
C10_Witness ==
  \E p \in Procs :
    /\ pc[p] = "failed"
    /\ eventsAt(p, {"intrinsicsPost"}) # {}
    /\ labeledTrace[p] = EmptyMap

\* The labeled accesses a returned trace holds for a slot of an account.
accessesAt(p, a, s) ==
  IF s \in DOMAIN labeledTrace[p][a].reads THEN labeledTrace[p][a].reads[s]
  ELSE IF s \in DOMAIN labeledTrace[p][a].writes THEN labeledTrace[p][a].writes[s]
  ELSE <<>>

\* C3: of two successive analyses on the same client with nothing in between, the second
\* reports, for every slot the first wrote and the second accessed, a current value equal
\* to the next value the first reported.
C3_SuccessiveRuns ==
  \A p \in Procs : Resolved(p) =>
    \A w \in prevWrites :
      w.account \in DOMAIN labeledTrace[p] =>
        \A i \in DOMAIN accessesAt(p, w.account, w.slot) :
          accessesAt(p, w.account, w.slot)[i].label = w.label =>
            accessesAt(p, w.account, w.slot)[i].current = w.next

\* A second analysis that writes again a slot the first left non-zero.
C3_Witness ==
  \E p \in Procs :
    /\ Resolved(p)
    /\ \E w \in prevWrites :
         /\ w.next # 0
         /\ w.account \in DOMAIN labeledTrace[p]
         /\ w.slot \in DOMAIN labeledTrace[p][w.account].writes

\* The bytes of a word an access covers: its variable's sub-range, or the whole word.
coveredBytes(x, word) ==
  IF x.offset = Undefined THEN word ELSE extractSubWord(word, x.offset, typeSize(x.type))

labelsOf(accesses) == [i \in DOMAIN accesses |-> accesses[i].label]

\* The labels the layout of ContractA gives its slots.
usualLabels(s) ==
  IF s = PackedSlot THEN <<VarLabel("a"), VarLabel("b")>> ELSE <<VarLabel("balances")>>

\* C6: when an account has no storage layout (no adapter, or an empty one) the analysis
\* does not fail at the labeling: every read and written slot of the account gets the one
\* fallback label, and the accounts that have a layout are labeled as usual.
C6_MissingLayout ==
  \A p \in Procs :
    /\ pc[p] = "failed" => Len(events[p]) < AwaitCount
    /\ Resolved(p) =>
         \A a \in DOMAIN labeledTrace[p] :
           \A s \in listedSlots(p, a) :
             IF layoutOf(layoutAdapters[p], a) = <<>>
             THEN labelsOf(accessesAt(p, a, s)) = <<FallbackLabel(s)>>
             ELSE labelsOf(accessesAt(p, a, s)) = usualLabels(s)

\* A returned trace of a transaction that wrote a slot of ContractB, which has no layout,
\* and accessed the balances mapping of ContractA.
C6_Witness ==
  \E p \in Procs :
    /\ Resolved(p)
    /\ ContractB \in DOMAIN labeledTrace[p]
    /\ ContractB \notin DOMAIN layoutAdapters[p]
    /\ PackedSlot \in DOMAIN labeledTrace[p][ContractB].writes
    /\ ContractA \in DOMAIN labeledTrace[p]
    /\ BalanceSlot \in listedSlots(p, ContractA)

declaredAs(label, encoding) ==
  {j \in 1..Len(rLayout) : VarLabel(rLayout[j].label) = label /\ rLayout[j].encoding = encoding}

\* Some variable of the resolved layout is at the resolved slot: directly, or through the
\* slot codec and the candidate keys.
matchExists ==
  \/ Len(directAt(rSlot, rLayout)) > 0
  \/ \E j \in 1..Len(rLayout) : \E k \in 1..Len(rKeys) :
       /\ rLayout[j].encoding = "mapping"
       /\ computeMappingSlot(rLayout[j].slot, rKeys[k]) = rSlot
  \/ \E j \in 1..Len(rLayout) : \E k1, k2 \in 1..Len(rKeys) :
       /\ rLayout[j].encoding = "mapping"
       /\ k1 # k2
       /\ computeNestedMappingSlot(rLayout[j].slot, <<rKeys[k1], rKeys[k2]>>) = rSlot
  \/ \E j \in 1..Len(rLayout) : \E k \in 1..Len(rKeys) :
       /\ rLayout[j].encoding = "dynamic_array"
       /\ isValidArrayIndex(rKeys[k].hex)
       /\ computeArraySlot(rLayout[j].slot, hexToBigInt(rKeys[k].hex)) = rSlot

\* C5: the slot resolver is total with a unique fallback: for a slot with no direct,
\* mapping, nested-mapping or dynamic-array match it returns exactly one match, labeled
\* var_<slot prefix> and of unknown type, and never an empty list, whatever the slot's
\* number. Stated of findBestStorageSlotLabel, the resolver of slot-engine.ts.
C5_FallbackTotality ==
  ("legacy" \in rDone /\ ~matchExists) =>
    /\ Len(rLegacy) = 1
    /\ rLegacy[1].label.name = "var_"
    /\ rLegacy[1].type = NoType

\* C7: every mapping, nested-mapping or array match findLayoutInfoAtSlot emits can be
\* verified: the slot codec applied to the slot of the variable the match names, with the
\* keys or the index the match records, gives exactly the observed slot.
C7_MatchesRecompute ==
  ("engine" \in rDone /\ ~rOut.threw) =>
    \A i \in 1..Len(rOut.results) :
      LET m == rOut.results[i]
      IN  /\ m.slot = rSlot
          /\ m.matchType = "mapping" =>
               \E j \in declaredAs(m.label, "mapping") :
                 /\ Len(m.keys) = 1
                 /\ computeMappingSlot(rLayout[j].slot, m.keys[1]) = rSlot
          /\ m.matchType = "nested-mapping" =>
               \E j \in declaredAs(m.label, "mapping") :
                 /\ Len(m.keys) = 2
                 /\ computeNestedMappingSlot(rLayout[j].slot, m.keys) = rSlot
          /\ m.matchType = "array" =>
               \E j \in declaredAs(m.label, "dynamic_array") :
                 /\ m.index # Undefined
                 /\ computeArraySlot(rLayout[j].slot, hexToBigInt(m.index)) = rSlot

\* The resolver matched a slot of the balances mapping through a candidate key.
C7_Witness ==
  /\ "engine" \in rDone
  /\ ~rOut.threw
  /\ \E i \in 1..Len(rOut.results) :
       /\ rOut.results[i].matchType = "mapping"
       /\ rOut.results[i].label = VarLabel("balances")

\* C11: when the EVM reverts the simulated transaction, the error the caller gets comes
\* with the partial access list accumulated up to the revert.
C11_RevertCarriesAccessList ==
  \A p \in Procs :
    (pc[p] = "failed" /\ callResult[p].errors) =>
      /\ rejection[p].raised
      /\ rejection[p].accessList = callResult[p].accessList

\* C12: when storage data of an account is present in one snapshot and absent in the
\* other, the absent side counts as the zero word and the accesses are still emitted:
\* the listed slots of the account are not dropped from reads and writes.
C12_GapKeepsSlots ==
  \A p \in Procs : Resolved(p) =>
    \A a \in DOMAIN labeledTrace[p] :
      (a \in DOMAIN storagePreTx[p] /\ a \notin DOMAIN storagePostTx[p]) =>
        /\ DOMAIN labeledTrace[p][a].reads \cup DOMAIN labeledTrace[p][a].writes
             = DOMAIN storagePreTx[p][a]
        /\ \A s \in DOMAIN labeledTrace[p][a].writes :
             \A i \in DOMAIN labeledTrace[p][a].writes[s] :
               labeledTrace[p][a].writes[s][i].next = 0

\* C13: a slot of a mapping nested four levels deep, m[a][b][c][d] with the four keys
\* among the candidates, resolves to exactly one match carrying the keys in the order
\* a, b, c, d; it does not degrade to the fallback label.
C13_DeepMappingResolved ==
  ( /\ "engine" \in rDone
    /\ rLayout = LayoutDeep
    /\ rKeys = DeepKeys
    /\ rSlot = computeNestedMappingSlot(2, DeepKeys) ) =>
      /\ ~rOut.threw
      /\ Len(rOut.results) = 1
      /\ rOut.results[1].label = VarLabel("ridiculouslyNestedMapping")
      /\ rOut.results[1].keys = DeepKeys
      /\ rOut.results[1] # fallbackResult(rSlot)

\* C14: when the observed slot is the base slot of a dynamic-array root, the resolver
\* emits an array-length match for that array, distinct from an element match.
C14_ArrayLengthMatch ==
  ( /\ "engine" \in rDone
    /\ \E j \in 1..Len(rLayout) :
         rLayout[j].encoding = "dynamic_array" /\ rLayout[j].slot = rSlot ) =>
      /\ ~rOut.threw
      /\ \E i \in 1..Len(rOut.results) :
           /\ rOut.results[i].matchType = "array-length"
           /\ \E j \in 1..Len(rLayout) :
                /\ rLayout[j].encoding = "dynamic_array"
                /\ rLayout[j].slot = rSlot
                /\ rOut.results[i].label = rLayout[j].label

\* C15: slot resolution never raises: for every slot, layout and candidate list,
\* including a candidate index that carries the array's element slot past the last
\* word, the resolver returns a list of matches.
C15_ResolverNeverRaises ==
  "engine" \in rDone => (~rOut.threw /\ Len(rOut.results) >= 0)

declaredAtSlot == {j \in 1..Len(rLayout) : ~rLayout[j].isComputed /\ rLayout[j].slot = rSlot}

\* C17: for a slot of the direct-slot map the resolver returns exactly one match per
\* non-computed variable declared at that slot, none omitted and none from another slot,
\* ordered by ascending byte offset whatever the order of the layout.
C17_DirectMatches ==
  /\ ("engine" \in rDone /\ declaredAtSlot # {}) =>
        /\ ~rOut.threw
        /\ Len(rOut.results) = Cardinality(declaredAtSlot)
        /\ \A j \in declaredAtSlot : \E i \in 1..Len(rOut.results) :
             /\ rOut.results[i].label = VarLabel(rLayout[j].label)
             /\ rOut.results[i].offset = rLayout[j].offset
             /\ rOut.results[i].type = rLayout[j].type
             /\ rOut.results[i].matchType = "exact"
        /\ \A i, k \in 1..Len(rOut.results) :
             i < k => offsetOrZero(rOut.results[i]) <= offsetOrZero(rOut.results[k])
  /\ ("legacy" \in rDone /\ declaredAtSlot # {}) =>
        /\ Len(rLegacy) = Cardinality(declaredAtSlot)
        /\ \A j \in declaredAtSlot : \E i \in 1..Len(rLegacy) :
             /\ rLegacy[i].label.name = rLayout[j].label
             /\ rLegacy[i].offset = rLayout[j].offset
             /\ rLegacy[i].matchType = "exact"
        /\ \A i, k \in 1..Len(rLegacy) :
             i < k => offsetOrZero(rLegacy[i]) <= offsetOrZero(rLegacy[k])

\* The resolver was asked for the packed slot, whose variables the layout declares in
\* descending offset order, and returned both of them.
C17_Witness ==
  /\ "engine" \in rDone
  /\ rSlot = PackedSlot
  /\ rLayout = LayoutA
  /\ Len(rOut.results) = 2
  /\ rOut.results[1].label = VarLabel("a")
  /\ rOut.results[2].label = VarLabel("b")

\* C18: mapping matching is complete over the candidates: when the slot has no direct
\* match and the resolver returns, every mapping root whose value type is not a mapping
\* and every candidate key whose mapping slot is the observed slot have their match in
\* the result, with that key alone and the mapping's value type.
C18_MappingComplete ==
  ("engine" \in rDone /\ ~rOut.threw /\ declaredAtSlot = {}) =>
    \A j \in 1..Len(rLayout) : \A k \in 1..Len(rKeys) :
      ( /\ rLayout[j].encoding = "mapping"
        /\ ~includesMapping(rLayout[j].valueType)
        /\ computeMappingSlot(rLayout[j].slot, rKeys[k]) = rSlot ) =>
          \E i \in 1..Len(rOut.results) :
            /\ rOut.results[i].matchType = "mapping"
            /\ rOut.results[i].label = VarLabel(rLayout[j].label)
            /\ rOut.results[i].keys = <<rKeys[k]>>
            /\ rOut.results[i].type = rLayout[j].valueType

\* A candidate taken from the stack, of no known type, hashed to the observed slot of
\* balances and was matched.
C18_Witness ==
  /\ "engine" \in rDone
  /\ ~rOut.threw
  /\ rSlot = computeMappingSlot(2, MappingKey(padHex32(ContractA), NoType))
  /\ \E i \in 1..Len(rOut.results) :
       /\ rOut.results[i].matchType = "mapping"
       /\ rOut.results[i].keys = <<MappingKey(padHex32(ContractA), NoType)>>
       /\ rOut.results[i].type = "uint256"

\* C19: for every mapping root whose value type is itself a mapping and every ordered
\* pair of distinct candidates whose nested mapping slot is the observed slot, the
\* resolver returns a nested-mapping match for that root with the two keys in that order.
C19_NestedPairsMatched ==
  ("engine" \in rDone /\ ~rOut.threw /\ declaredAtSlot = {}) =>
    \A j \in 1..Len(rLayout) : \A k1, k2 \in 1..Len(rKeys) :
      ( /\ rLayout[j].encoding = "mapping"
        /\ includesMapping(rLayout[j].valueType)
        /\ k1 # k2
        /\ computeNestedMappingSlot(rLayout[j].slot, <<rKeys[k1], rKeys[k2]>>) = rSlot ) =>
          \E i \in 1..Len(rOut.results) :
            /\ rOut.results[i].matchType = "nested-mapping"
            /\ rOut.results[i].label = VarLabel(rLayout[j].label)
            /\ rOut.results[i].keys = <<rKeys[k1], rKeys[k2]>>

\* C20: a candidate is tried as an array index only when its numeric value is below
\* 1,000,000: no array match is ever emitted with an index of 1,000,000 or more, by
\* either engine.
C20_IndexBelowLimit ==
  /\ ("engine" \in rDone /\ ~rOut.threw) =>
        \A i \in 1..Len(rOut.results) :
          rOut.results[i].matchType = "array" => hexToBigInt(rOut.results[i].index) < LIMIT
  /\ "legacy" \in rDone =>
        \A i \in 1..Len(rLegacy) :
          rLegacy[i].matchType = "array" => rLegacy[i].keys[1].n < LIMIT

\* C21: a candidate whose declared type is incompatible with a mapping's key type, both
\* being typed, is skipped: it never appears as the key of a match for that mapping.
C21_TypedKeysFiltered ==
  ("engine" \in rDone /\ ~rOut.threw) =>
    \A i \in 1..Len(rOut.results) : \A j \in 1..Len(rLayout) :
      ( /\ rOut.results[i].matchType = "mapping"
        /\ rOut.results[i].label = VarLabel(rLayout[j].label)
        /\ rLayout[j].keyType # NoType ) =>
          \/ rOut.results[i].keys[1].type = NoType
          \/ rOut.results[i].keys[1].type = rLayout[j].keyType

\* The inputs the calldata decodes against: those of the ABI function of its selector, when
\* there is one and the calldata carries arguments.
decodedInputs ==
  IF kIn.data.hasData /\ Len(kIn.data.args) > 0
     /\ \E f \in 1..Len(kIn.abiFunctions) : kIn.abiFunctions[f].selector = kIn.data.selector
  THEN kIn.abiFunctions[CHOOSE f \in 1..Len(kIn.abiFunctions) :
                          kIn.abiFunctions[f].selector = kIn.data.selector].inputs
  ELSE <<>>

\* The words produced with a type: the touched addresses and the decoded arguments.
typedHexes ==
  {padHex32(kIn.addresses[a]) : a \in 1..Len(kIn.addresses)}
  \cup {padHex32(kIn.data.args[i]) : i \in 1..Len(decodedInputs)}

\* The word a legacy candidate stands for, when it is a hex string or a number.
isWord(v) == v.value.kind \in {"hex", "number"}

\* C22: the candidate list holds no two entries with the same 32-byte word, and a word
\* produced both typed and untyped survives typed; for both extractions.
C22_DedupedByHex ==
  /\ ("engine" \in kDone /\ ~kKeys.threw) =>
        /\ \A i, j \in 1..Len(kKeys.keys) : i # j => kKeys.keys[i].hex # kKeys.keys[j].hex
        /\ \A i \in 1..Len(kKeys.keys) :
             kKeys.keys[i].hex \in typedHexes => kKeys.keys[i].type # NoType
  /\ "legacy" \in kDone =>
        \A i, j \in 1..Len(kValues) :
          (i # j /\ isWord(kValues[i]) /\ isWord(kValues[j])) =>
            kValues[i].value.n # kValues[j].value.n

\* C23: for every input, the candidate list returned by key extraction holds the ten
\* small integers 0..9 as 32-byte keys.
C23_SmallIntegersIncluded ==
  ("engine" \in kDone /\ ~kKeys.threw) =>
    \A n \in 0..9 : \E i \in 1..Len(kKeys.keys) : kKeys.keys[i].hex = padHex32(n)

\* C24: when no known ABI function has the calldata's selector, or the calldata carries no
\* arguments, key extraction returns, with every touched address and every stack value
\* among the candidates and no candidate derived from the arguments.
C24_MissingAbiSkipsArguments ==
  ("engine" \in kDone /\ decodedInputs = <<>>) =>
    /\ ~kKeys.threw
    /\ \A a \in 1..Len(kIn.addresses) : \E i \in 1..Len(kKeys.keys) :
         kKeys.keys[i] = MappingKey(padHex32(kIn.addresses[a]), "address")
    /\ \A v \in 1..Len(kIn.uniqueStackValues) : \E i \in 1..Len(kKeys.keys) :
         kKeys.keys[i].hex = padHex32(kIn.uniqueStackValues[v])
    /\ \A i \in 1..Len(kKeys.keys) :
         \/ /\ kKeys.keys[i].type = "address"
            /\ \E a \in 1..Len(kIn.addresses) : kKeys.keys[i].hex = padHex32(kIn.addresses[a])
         \/ /\ kKeys.keys[i].type = NoType
            /\ \E v \in 1..Len(kIn.uniqueStackValues) :
                 kKeys.keys[i].hex = padHex32(kIn.uniqueStackValues[v])

\* Calldata with arguments, an ABI that knows another selector only, and a stack value:
\* the extraction returned the two addresses and the stack value.
C24_Witness ==
  /\ "engine" \in kDone
  /\ kIn.data = TxData("transfer", <<padHex32(ContractB), 12>>)
  /\ Len(kIn.abiFunctions) > 0
  /\ kIn.uniqueStackValues = <<2>>
  /\ ~kKeys.threw
  /\ Len(kKeys.keys) = 3

\* C25: the element slot of an array is (keccak256(base) + index) modulo 2^256 as a 32-byte
\* word: a sum past the last word wraps around; it neither fails nor gets wider.
C25_ArraySlotWraps ==
  \A j \in 1..Len(rLayout) : \A k \in 1..Len(rKeys) :
    rLayout[j].encoding = "dynamic_array" =>
      /\ "engine" \in rDone =>
            computeArraySlot(rLayout[j].slot, hexToBigInt(rKeys[k].hex))
              = (keccak256(<<rLayout[j].slot>>) + rKeys[k].hex) % WordModulus
      /\ "legacy" \in rDone =>
            slotEngine_computeArraySlot(JsNumber(rLayout[j].baseSlot), rKeys[k].hex)
              = (keccak256(<<rLayout[j].baseSlot>>) + rKeys[k].hex) % WordModulus

\* The left fold of keccak256(key ++ base) over the words of a key list.
RECURSIVE foldMappingSlot(_, _)
foldMappingSlot(base, hexes) ==
  IF hexes = <<>> THEN base
  ELSE foldMappingSlot(keccak256(<<Head(hexes), base>>), Tail(hexes))

\* C26: the nested mapping slot is the left fold of the mapping slot over the key list,
\* the mapping slot being the hash of the 32-byte key followed by the 32-byte base: no key
\* gives the base, one key the mapping slot, and each further key is hashed onto the result.
C26_NestedIsLeftFold ==
  \A j \in 1..Len(rLayout) :
    rLayout[j].encoding = "mapping" =>
      /\ "engine" \in rDone =>
            computeNestedMappingSlot(rLayout[j].slot, rKeys)
              = foldMappingSlot(rLayout[j].slot, [i \in 1..Len(rKeys) |-> rKeys[i].hex])
      /\ "legacy" \in rDone =>
            slotEngine_computeNestedMappingSlot(
                JsNumber(rLayout[j].baseSlot),
                [i \in 1..Len(rKeys) |-> traceValuesOf(rKeys)[i].value],
                [i \in 1..Len(rKeys) |-> "address"])
              = foldMappingSlot(rLayout[j].baseSlot, [i \in 1..Len(rKeys) |-> rKeys[i].hex])

\* The slots an invocation's own transaction stores a different word to, given the word
\* its pre snapshot saw.
ownChanges(p, a) ==
  {t.slot : t \in {u \in args[p].effects :
                     /\ u.account = a
                     /\ u.val # Undefined
                     /\ a \in DOMAIN storagePreTx[p]
                     /\ u.slot \in DOMAIN storagePreTx[p][a]
                     /\ u.val # storagePreTx[p][a][u.slot]}}

\* C27: when two invocations share a client and interleave at their awaits, each reports
\* as writes only the slots its own transaction changed.
C27_OwnWritesOnly ==
  \A p \in Procs : (\A q \in Procs : Resolved(q)) =>
    \A a \in DOMAIN labeledTrace[p] :
      DOMAIN labeledTrace[p][a].writes \subseteq ownChanges(p, a)

\* C28: when the simulated call reports EVM errors or throws, the analysis fails before any
\* storage or intrinsic snapshot is taken and without the commit or any layout retrieval:
\* it performs no operation on the client other than the call.
C28_FailedCallTouchesNothing ==
  \A p \in Procs :
    (pc[p] = "failed" /\ ~callResult[p].made) =>
      /\ events[p] = <<>>
      /\ storagePreTx[p] = EmptyMap
      /\ intrinsicsPreTx[p] = EmptyMap
      /\ storagePostTx[p] = EmptyMap
      /\ intrinsicsPostTx[p] = EmptyMap
      /\ contractsInfo[p] = {}
      /\ layoutAdapters[p] = EmptyMap
      /\ \A i \in 1..Len(txPool) : txPool[i].owner # args[p].run

\* A second analysis whose call the EVM reverted, after a first that resolved.
C28_Witness ==
  \E p \in Procs :
    /\ pc[p] = "failed"
    /\ callResult[p].errors
    /\ args[p].run = MaxRuns
    /\ prevWrites # {}

\* C29: the keys of a returned map are exactly the preimage addresses other than the zero
\* address that have an intrinsic snapshot before and after the block; the zero address
\* is never a key, and an address lacking either intrinsic snapshot is left out.
C29_KeysAreSnapshottedAddresses ==
  \A p \in Procs : Resolved(p) =>
    /\ DOMAIN labeledTrace[p] =
         {a \in seqToSet(callResult[p].preimages) :
            a # ZeroAddress /\ a \in DOMAIN intrinsicsPreTx[p] /\ a \in DOMAIN intrinsicsPostTx[p]}
    /\ ZeroAddress \notin DOMAIN labeledTrace[p]
    /\ \A a \in DOMAIN labeledTrace[p] :
         labeledTrace[p][a].intrinsic = intrinsicDiff(intrinsicsPreTx[p][a], intrinsicsPostTx[p][a])

\* A returned map that leaves out an address lacking its intrinsic snapshot after the
\* block, and keeps another whose nonce did not change.
C29_Witness ==
  \E p \in Procs :
    /\ Resolved(p)
    /\ ZeroAddress \in seqToSet(callResult[p].preimages)
    /\ \E a \in seqToSet(addressesOf(callResult[p])) :
         a \in DOMAIN intrinsicsPreTx[p] /\ a \notin DOMAIN intrinsicsPostTx[p]
    /\ \E a \in DOMAIN labeledTrace[p] : intrinsicsPreTx[p][a] = intrinsicsPostTx[p][a]

\* C30: an address with both intrinsic snapshots that lacks a storage snapshot before or
\* after the block is in the returned map with no reads, no writes and its intrinsic
\* diff; no contract and no layout is ever requested for an address lacking one.
C30_NoStorageStillReported ==
  \A p \in Procs :
    /\ \A a \in contractsInfo[p] \cup DOMAIN layoutAdapters[p] :
         a \in DOMAIN storagePreTx[p] /\ a \in DOMAIN storagePostTx[p]
    /\ Resolved(p) =>
         \A a \in seqToSet(addressesOf(callResult[p])) :
           ( /\ a \in DOMAIN intrinsicsPreTx[p] /\ a \in DOMAIN intrinsicsPostTx[p]
             /\ (a \notin DOMAIN storagePreTx[p] \/ a \notin DOMAIN storagePostTx[p]) ) =>
             /\ a \in DOMAIN labeledTrace[p]
             /\ DOMAIN labeledTrace[p][a].reads = {}
             /\ DOMAIN labeledTrace[p][a].writes = {}
             /\ labeledTrace[p][a].intrinsic =
                  intrinsicDiff(intrinsicsPreTx[p][a], intrinsicsPostTx[p][a])

\* A returned map holding the caller, an account without code, and a contract whose
\* storage was snapshotted before the block only.
C30_Witness ==
  \E p \in Procs :
    /\ Resolved(p)
    /\ Caller \in DOMAIN labeledTrace[p] /\ Caller \notin DOMAIN storagePreTx[p]
    /\ \E a \in DOMAIN labeledTrace[p] :
         /\ a \in DOMAIN storagePreTx[p] /\ a \notin DOMAIN storagePostTx[p]
         /\ DOMAIN storagePreTx[p][a] # {}

====
